---- MODULE Spec2Model ----
(***************************************************************************)
(* Model of the test harness of nuitka/tools/testing/Common.py:            *)
(*   - the leak detector (checkReferenceCount and its census snapshots),   *)
(*   - the test session (the case loop of compileLibraryPath, the          *)
(*     comparison runner compareWithCPython, the compile-only check        *)
(*     checkCompilesNotWithCPython and the search modes),                  *)
(*   - the sandbox audit (checkRuntimeLoadedFilesForOutsideAccesses),      *)
(*   - the access tracer (getRuntimeTraceOfLoadedFiles),                   *)
(*   - mode selection (createSearchMode), the reference check runner       *)
(*     (executeReferenceChecked), print silencing and the context managers *)
(*     that change the environment,                                        *)
(* and of importFromInlineCopy (nuitka/utils/Importing.py),                *)
(* _setupSconsEnvironment (nuitka/build/SconsInterface.py) and             *)
(* myDetectVersion (nuitka/build/SconsHacks.py).                           *)
(* Each component has a specification of its own over the shared           *)
(* variables; the variables of the other components stay at their initial  *)
(* value.                                                                  *)
(***************************************************************************)
EXTENDS Integers, Sequences, FiniteSets, TLC

VARIABLES
    \* ---- leak detector (checkReferenceCount) ----
    lpc,          \* position: "idle", "loop", "after" (loop left), "done" (returned)
    max_rounds,   \* argument max_rounds
    explain,      \* argument explain
    probe,        \* what checked_function does: a record, see ProbeKinds
    count,        \* loop variable of "for count in range(max_rounds)"
    heap,         \* the live objects gc.get_objects() reports, in its order
    m1, m2,       \* the module-level census maps
    ref_count1,   \* total before the probe, last round
    ref_count2,   \* total after the probe, last round
    result,       \* the local "result", returned at the end
    report,       \* the lines of "REPORT of differences"
    calls,        \* history: how often checked_function() was invoked
    eqLog,        \* history: per round, whether the two totals were equal
    steady,       \* history: no call after the first changed the heap
    roundLog,     \* history: what each round did, in order
    staleAtStart, \* history: the maps held entries when the session began
    \* ---- test session (search mode, case loop, comparison runner) ----
    spc,          \* "idle", "running", "finished" (loop and finish() done),
                  \* "exited" (sys.exit or a fatal error ended the process)
    mode,         \* the search mode createSearchMode returned
    active,       \* Resume mode: the persisted marker has been passed
    resumeFrom,   \* Resume mode: the marker read at start (0: none)
    marker,       \* persisted resume marker: the failed case (0: none)
    cur,          \* position of the loop in the sorted case stream
    exitStatus,   \* exit status of an exited session (0 while not exited)
    tmpCopy,      \* a converted copy exists in the harness temp directory
    atTest,       \* the staging entry "@test" exists
    log,          \* history: the processes started in this session
    events,       \* history: what the last harness call did, in order
    lastCall,     \* history: the last harness call and its inputs
    resumeEnd,    \* history: how the most recent Resume session ended
    prev,         \* history: resumeEnd as it was when this session started
    sessions,     \* history: number of sessions started
    \* ---- sandbox audit (checkRuntimeLoadedFilesForOutsideAccesses) ----
    apc,              \* "input" (before the call), "done" (returned)
    loaded_filenames, \* argument: the accessed paths
    white_list,       \* argument: the whitelist entries
    violations,       \* the returned list
    \* ---- access tracer (getRuntimeTraceOfLoadedFiles) ----
    tpc,              \* "input" (before the call), "done", "fatal"
    tracer_present,   \* isExecutableCommand of the tracer tool
    exit_strace,      \* exit status of the tracer process
    stderr_strace,    \* the lines of the captured trace
    loaded,           \* the returned AccessReport
    contributed,      \* history: the paths each parsed line added
    sidecar,          \* whether the raw trace was written to path.strace
    \* ---- mode selection (createSearchMode) ----
    cpc,              \* "idle", "args" (before the call), "created",
                      \* "fatal" (assertion failed), "running" (case loop)
    argv,             \* the runner's command line, see Args
    search_mode,      \* what createSearchMode returned (NoMode: nothing)
    \* ---- reference check runner (executeReferenceChecked) ----
    rpc,              \* "idle", "input" (before the call), "loop",
                      \* "returned", "raised" (ValueError of int())
    names,            \* argument names: the names of the namespace
    tests_skipped,    \* argument: the numbers not to run
    tests_stderr,     \* argument: the numbers run with stderr silenced
    todo,             \* the rest of sorted(matching_names, key=extract_number)
    ran,              \* history: number and result of each check run
    all_passed,       \* the local "result"
    gc_enabled,       \* whether the collector is enabled
    sys_stderr,       \* sys.stderr: "stderr" or "devnull"
    \* ---- print silencing (disablePrinting, reenablePrinting) ----
    builtin_print,    \* __builtins__["print"]: "print" or "noop"
    orig_print,       \* the module global: "None", "print" or "noop"
    printLog,         \* history: the calls made, in order
    lastPrint,        \* history: the last call and the state it found
    \* ---- inline copy import (importFromInlineCopy) ----
    ipc,              \* "idle", "input" (before the call), "importing"
                      \* (inside __import__), "returned", "exited"
    sys_path,         \* sys.path
    sys_modules,      \* the names in sys.modules
    imp,              \* the call: its arguments and, as history, the path
                      \* it found, its writes to the path and its outcome
    import_calls,     \* history: number of calls made
    \* ---- environment context managers ----
    environ,          \* os.environ, for the names of EnvNames
    frames,           \* the managers entered and not left, innermost last,
                      \* each with its saved values
    lastExit,         \* history: the manager left last, the environment
                      \* it found on entry and the one it left behind
    py3,              \* python_version >= 0x300
    epc,              \* "idle", "running", "raised" (KeyError of a del)
    \* ---- compiler version cache (myDetectVersion) ----
    v_cache,          \* the module global: command words -> version
    detected,         \* history: command -> the version detected for it
    lastDetect,       \* history: the last call, what it found and returned
    detect_calls,     \* history: number of calls made
    started           \* history: number of processes started

leakVars == <<lpc, max_rounds, explain, probe, count, heap, m1, m2, ref_count1,
              ref_count2, result, report, calls, eqLog, steady, roundLog,
              staleAtStart>>

sessVars == <<spc, mode, active, resumeFrom, marker, cur, exitStatus, tmpCopy,
              atTest, log, events, lastCall, resumeEnd, prev, sessions>>

auditVars == <<apc, loaded_filenames, white_list, violations>>

traceVars == <<tpc, tracer_present, exit_strace, stderr_strace, loaded,
               contributed, sidecar>>

modeVars == <<cpc, argv, search_mode>>

refVars == <<rpc, names, tests_skipped, tests_stderr, todo, ran, all_passed, gc_enabled, sys_stderr>>

printVars == <<builtin_print, orig_print, printLog, lastPrint>>

importVars == <<ipc, sys_path, sys_modules, imp, import_calls>>

envVars == <<environ, frames, lastExit, py3, epc>>

cacheVars == <<v_cache, detected, lastDetect, detect_calls, started>>

vars == <<leakVars, sessVars, auditVars, traceVars, modeVars, refVars, printVars, importVars, envVars, cacheVars>>

-----------------------------------------------------------------------------
(* Bounds of the model.                                                    *)

\* Test cases a session iterates over, in sorted order: 1..NumCases.
NumCases == 2
\* Sessions run one after another over the same persisted state.
MaxSessions == 2
\* Longest list of accessed paths and longest whitelist of an audit.
MaxLoaded == 2
MaxWhiteList == 2
\* Longest trace the tracer parses, in lines.
MaxTraceLines == 3

\* Largest number of objects a noisy probe may leave on the heap.
MaxNoisyHeap == 2
\* Largest max_rounds a session with a noisy probe is given.
MaxNoisyRounds == 4

(* Program constants.                                                      *)

\* The default of max_rounds, and the largest value the sessions use.
DefaultMaxRounds == 20
\* ref_count1 = ref_count2 = 17 before the first round.
InitialRefCount == 17

-----------------------------------------------------------------------------
(* Objects.  An object is what gc.get_objects() yields: its type, its      *)
(* textual representation str(x) (for a str, its value; for a module       *)
(* dict, its __name__) and its reference count sys.getrefcount(x).         *)

ObjTypes == {"str", "str_subclass", "module_dict", "dict", "compiled_frame",
             "float", "other", "m1", "m2"}
Texts == {"a", "b"}
RefCounts == {1, 2}

\* The objects the probes and the initial heap are drawn from.
ObjUniverse == [type : {"str", "other"}, text : Texts, rc : RefCounts]

\* The two census maps are module globals, hence live objects themselves;
\* so is the module dict of the running harness.
PermanentObjs == << [type |-> "m1", text |-> "{}", rc |-> 1],
                    [type |-> "m2", text |-> "{}", rc |-> 1],
                    [type |-> "module_dict", text |-> "__main__", rc |-> 1] >>

EmptyMap == [k \in {} |-> 0]

\* A search mode: its class and, for ByPattern and Only, its pattern.
NoPattern == ""
Mode(k, p) == [kind |-> k, pattern |-> p]

\* Neither disablePrinting nor reenablePrinting has been called.
NoPrintCall == [call |-> "none", printBefore |-> "print", origBefore |-> "None"]

\* No call of importFromInlineCopy has been made.
NoImport == [module_name |-> "", must_exist |-> FALSE, entryPath |-> <<>>,
             writes |-> 0, outcome |-> "none"]

\* The environment variables of the context managers.
EnvNames == {"PYTHONPATH", "PYTHONHOME", "NUITKA_EXTRA_OPTIONS",
             "NUITKA_PYTHON_EXE_PATH", "NUITKA_PACKAGE_DIR"}

\* A variable that is not set, and one that is set to a value.  A value is
\* the sequence of the elements its separator joins, the empty string
\* being one empty element.
Absent == [set |-> FALSE, val |-> <<>>]
Present(v) == [set |-> TRUE, val |-> v]

NoEnvironment == [n \in EnvNames |-> Absent]

\* No context manager has been left.
NoExit == [mgr |-> "none", entry |-> NoEnvironment, after |-> NoEnvironment,
           raised |-> FALSE]

\* The value None, and a version: the tuple of its numbers.
NoVersion == [some |-> FALSE, ver |-> <<>>]
Version(v) == [some |-> TRUE, ver |-> v]

\* No call of myDetectVersion has been made.
NoDetect == [cc |-> <<>>, outcome |-> "none", returned |-> NoVersion,
             started |-> FALSE, known |-> FALSE, cacheBefore |-> EmptyMap]

\* No search mode object exists (yet).
NoMode == Mode("none", NoPattern)

\* The command line of a test runner: mode word, second positional
\* argument, --pattern and --all.
Args(w, p2, op, oa) == [word |-> w, pos2 |-> p2, optPattern |-> op, optAll |-> oa]
NoArgs == Args("", NoPattern, NoPattern, FALSE)

\* No Resume session has ended yet.
NoPrev == [kind |-> "none", at |-> 0]

\* No harness call has been made in this session.
NoCall == [call |-> "none", found |-> FALSE, result |-> 0, onErr |-> FALSE,
           returned |-> FALSE, outcome |-> "none", converted |-> FALSE,
           inTemp |-> FALSE, original |-> "intact",
           hadTestDir |-> FALSE, startedWithTestDir |-> FALSE,
           leftTestDir |-> FALSE]

\* The key snapObjRefCntMap derives for an object (lines 828-840).
CensusKey(x) ==
    CASE x.type = "str_subclass"   -> "str_overload_" \o "S" \o x.text
      [] x.type = "module_dict"    -> "<module dict " \o x.text \o ">"
      [] x.type = "compiled_frame" -> "<compiled_frame at xxx, " \o x.text
      [] OTHER                     -> x.text

RECURSIVE SetToSeq(_)
SetToSeq(S) ==
    IF S = {} THEN <<>>
    ELSE LET e == CHOOSE e \in S : TRUE IN <<e>> \o SetToSeq(S \ {e})

\* The key strings a census map holds are live str objects as well.
StorageObjs(m) ==
    LET ks == SetToSeq(DOMAIN m)
    IN  [i \in 1..Len(ks) |-> [type |-> "str", text |-> ks[i], rc |-> 1]]

\* gc.get_objects(): the heap and the storage of the two census maps.
GcObjects(h, a, b) == h \o StorageObjs(a) \o StorageObjs(b)

RECURSIVE SumRc(_, _)
SumRc(objs, floats) ==
    IF objs = <<>> THEN 0
    ELSE (IF (Head(objs).type = "float") = floats THEN Head(objs).rc ELSE 0)
         + SumRc(Tail(objs), floats)

\* getTotalReferenceCount: the sum of all reference counts, the non-float
\* objects first and the float objects in a second pass.  The debug build's
\* sys.gettotalrefcount() is the same total.
getTotalReferenceCount(objs) == SumRc(objs, FALSE) + SumRc(objs, TRUE)

\* Line 825: a str that is a key of either map is not counted.
SkipAsCensusStorage(x, m, other) ==
    x.type = "str" /\ (x.text \in DOMAIN m \/ x.text \in DOMAIN other)

\* The loop of snapObjRefCntMap over gc.get_objects(): m is the map being
\* filled (cleared first), other is the other census map.
RECURSIVE SnapFill(_, _, _)
SnapFill(objs, m, other) ==
    IF objs = <<>> THEN m
    ELSE LET x == Head(objs)
             k == CensusKey(x)
         IN  IF x.type \in {"m1", "m2"} THEN SnapFill(Tail(objs), m, other)
             ELSE IF SkipAsCensusStorage(x, m, other)
                  THEN SnapFill(Tail(objs), m, other)
             ELSE IF k \in DOMAIN m
                  THEN SnapFill(Tail(objs), [m EXCEPT ![k] = @ + x.rc], other)
             ELSE SnapFill(Tail(objs), m @@ (k :> x.rc), other)

\* snapObjRefCntMap(before): the new content of m1 (before) or m2 (after).
\* m.clear() frees the storage of the map that is filled.
snapObjRefCntMap(before, h, a, b) ==
    IF before THEN SnapFill(GcObjects(h, EmptyMap, b), EmptyMap, b)
    ELSE SnapFill(GcObjects(h, a, EmptyMap), EmptyMap, a)

\* The report loops of checkReferenceCount (lines 956-969), with the labels
\* the code prints.  before/after are 0 where the key is absent.
DifferenceReport(a, b) ==
    { [label |-> "extra", key |-> k, before |-> a[k], after |-> 0] :
        k \in {k \in DOMAIN a : k \notin DOMAIN b} }
    \cup
    { [label |-> "changed", key |-> k, before |-> a[k], after |-> b[k]] :
        k \in {k \in DOMAIN a : k \in DOMAIN b /\ a[k] # b[k]} }
    \cup
    { [label |-> "missing", key |-> k, before |-> 0, after |-> b[k]] :
        k \in {k \in DOMAIN b : k \notin DOMAIN a} }

-----------------------------------------------------------------------------
(* The probe (checked_function).  A "noisy" probe may on each call leave   *)
(* the heap as it is, allocate one object or free the newest one; a        *)
(* "retain" probe keeps one new object alive on every call, of a fixed     *)
(* type and reference count, whose text is either the same on every call   *)
(* or carries its address ("@": unique per object).                        *)

ProbeKinds ==
    [kind : {"noisy"}, type : {"other"}, text : {"a"}, rc : {1}]
    \cup [kind : {"retain"}, type : {"str", "other"},
          text : Texts \cup {"@"}, rc : RefCounts]

UserObjects(h) == Len(h) - Len(PermanentObjs)

RetainedObject(p, h) ==
    [type |-> p.type,
     text |-> IF p.text = "@" THEN "obj@" \o ToString(Len(h)) ELSE p.text,
     rc   |-> p.rc]

ProbeOutcomes(p, h) ==
    IF p.kind = "retain" THEN { Append(h, RetainedObject(p, h)) }
    ELSE {h}
         \cup (IF UserObjects(h) < MaxNoisyHeap
               THEN { Append(h, o) : o \in ObjUniverse } ELSE {})
         \cup (IF UserObjects(h) > 0
               THEN { SubSeq(h, 1, Len(h) - 1) } ELSE {})

\* The heaps a session may find when it starts.
StartHeaps ==
    { PermanentObjs } \cup { Append(PermanentObjs, o) : o \in ObjUniverse }

RoundChoices(p) ==
    IF p.kind = "noisy" THEN 1..MaxNoisyRounds ELSE 1..DefaultMaxRounds

-----------------------------------------------------------------------------
(* checkReferenceCount.                                                    *)

\* "for count in range(max_rounds)": whether the loop runs for this count.
InRangeMutShort(c, n) == c < n - 1
InRange(c, n) == c < n

\* "if ref_count1 == ref_count2": the round converged.
ConvergedMutShrink(r1, r2) == r2 <= r1
Converged(r1, r2) == r1 = r2

\* "if explain and count == max_rounds - 1": the snapshots of the last round.
SnapshotRoundMutEvery(e, c, n) == e
SnapshotRound(e, c, n) == e /\ c = n - 1

\* Lines 925-942: what one round does, in order; snap: the round takes
\* snapshots; conv: its totals are equal, so that it breaks at line 939.
roundEvents(snap, conv) ==
    (IF snap THEN <<"snapObjRefCntMap(before=True)">> ELSE <<>>)
    \o <<"getTotalReferenceCount", "checked_function",
          "getTotalReferenceCount">>
    \o (IF ~conv /\ snap THEN <<"snapObjRefCntMap(before=False)">> ELSE <<>>)

\* cleanObjRefCntMaps (lines 797-806): the content of a map after clear().
cleanObjRefCntMapsMutKeep(m) == m
cleanObjRefCntMaps(m) == EmptyMap

\* What the census maps hold when a session starts: nothing in a fresh
\* process, or the snapshots an earlier explained session of the same
\* process left behind (its objects have since been freed).
LeftoverMaps ==
    { <<EmptyMap, EmptyMap>>,
      <<("old" :> 2) @@ ("a" :> 1), ("old" :> 3) @@ ("a" :> 1)>> }

\* The state of the process before checkReferenceCount is called; the
\* test session is not running.
InitLeak ==
    /\ lpc = "idle"
    /\ max_rounds = DefaultMaxRounds
    /\ explain = FALSE
    /\ probe = [kind |-> "noisy", type |-> "other", text |-> "a", rc |-> 1]
    /\ count = 0
    /\ heap = PermanentObjs
    /\ ref_count1 = InitialRefCount
    /\ ref_count2 = InitialRefCount
    /\ result = FALSE
    /\ report = {}
    /\ calls = 0
    /\ eqLog = <<>>
    /\ steady = TRUE
    /\ roundLog = <<>>
    /\ staleAtStart = FALSE
    /\ \E lo \in LeftoverMaps : m1 = lo[1] /\ m2 = lo[2]
    /\ spc = "idle"
    /\ mode = Mode("Immediate", NoPattern)
    /\ active = TRUE
    /\ resumeFrom = 0
    /\ marker = 0
    /\ cur = 1
    /\ exitStatus = 0
    /\ tmpCopy = FALSE
    /\ atTest = FALSE
    /\ log = <<>>
    /\ events = <<>>
    /\ lastCall = NoCall
    /\ resumeEnd = NoPrev
    /\ prev = NoPrev
    /\ sessions = 0
    /\ apc = "input"
    /\ loaded_filenames = <<>>
    /\ white_list = <<>>
    /\ violations = <<>>
    /\ tpc = "input"
    /\ tracer_present = TRUE
    /\ exit_strace = 0
    /\ stderr_strace = <<>>
    /\ loaded = <<>>
    /\ contributed = <<>>
    /\ sidecar = FALSE
    /\ cpc = "idle"
    /\ argv = NoArgs
    /\ search_mode = NoMode
    /\ rpc = "idle"
    /\ names = {}
    /\ tests_skipped = {}
    /\ tests_stderr = {}
    /\ todo = <<>>
    /\ ran = <<>>
    /\ all_passed = TRUE
    /\ gc_enabled = TRUE
    /\ sys_stderr = "stderr"
    /\ builtin_print = "print"
    /\ orig_print = "None"
    /\ printLog = <<>>
    /\ lastPrint = NoPrintCall
    /\ ipc = "idle"
    /\ sys_path = <<>>
    /\ sys_modules = {}
    /\ imp = NoImport
    /\ import_calls = 0
    /\ environ = NoEnvironment
    /\ frames = <<>>
    /\ lastExit = NoExit
    /\ py3 = TRUE
    /\ epc = "idle"
    /\ v_cache = EmptyMap
    /\ detected = EmptyMap
    /\ lastDetect = NoDetect
    /\ detect_calls = 0
    /\ started = 0

\* Lines 902-922: the call, up to the loop.  The heap is what the process
\* holds when the session starts.
StartCheck ==
    /\ lpc = "idle"
    /\ \E p \in ProbeKinds, e \in BOOLEAN, h \in StartHeaps :
         \E n \in RoundChoices(p) :
            /\ probe' = p
            /\ explain' = e
            /\ max_rounds' = n
            /\ heap' = h
            \* if explain: cleanObjRefCntMaps()
            /\ m1' = IF e THEN cleanObjRefCntMaps(m1) ELSE m1
            /\ m2' = IF e THEN cleanObjRefCntMaps(m2) ELSE m2
            /\ lpc' = IF InRange(0, n) THEN "loop" ELSE "after"
    /\ ref_count1' = InitialRefCount
    /\ ref_count2' = InitialRefCount
    /\ result' = FALSE
    /\ count' = 0
    /\ report' = {}
    /\ calls' = 0
    /\ eqLog' = <<>>
    /\ steady' = TRUE
    /\ roundLog' = <<>>
    /\ staleAtStart' = (m1 # EmptyMap \/ m2 # EmptyMap)
    /\ UNCHANGED <<sessVars, auditVars, traceVars, modeVars, refVars,
                   printVars, importVars, envVars, cacheVars>>

\* Lines 924-942: one iteration of the loop.
Round ==
    /\ lpc = "loop"
    /\ \E h2 \in ProbeOutcomes(probe, heap) :
         LET snap    == SnapshotRound(explain, count, max_rounds)
             m1a     == IF snap THEN snapObjRefCntMap(TRUE, heap, m1, m2) ELSE m1
             r1      == getTotalReferenceCount(GcObjects(heap, m1a, m2))
             r2      == getTotalReferenceCount(GcObjects(h2, m1a, m2))
             conv    == Converged(r1, r2)
             m2a     == IF ~conv /\ snap
                        THEN snapObjRefCntMap(FALSE, h2, m1a, m2) ELSE m2
         IN  /\ heap' = h2
             /\ m1' = m1a
             /\ m2' = m2a
             /\ ref_count1' = r1
             /\ ref_count2' = r2
             /\ result' = (conv \/ result)
             /\ calls' = calls + 1
             /\ eqLog' = Append(eqLog, r1 = r2)
             /\ steady' = (steady /\ (calls = 0 \/ h2 = heap))
             /\ roundLog' = Append(roundLog, roundEvents(snap, conv))
             /\ IF conv THEN lpc' = "after" /\ count' = count
                ELSE IF InRange(count + 1, max_rounds)
                     THEN lpc' = "loop" /\ count' = count + 1
                     ELSE lpc' = "after" /\ count' = count
    /\ UNCHANGED <<max_rounds, explain, probe, report, staleAtStart>>
    /\ UNCHANGED <<sessVars, auditVars, traceVars, modeVars, refVars,
                   printVars, importVars, envVars, cacheVars>>

\* Lines 944-978: the report and the return.  "assert m1" and "assert m2"
\* raise when a map of a failed explained session is empty.
Finish ==
    /\ lpc = "after"
    /\ IF ~result /\ explain /\ (m1 = EmptyMap \/ m2 = EmptyMap)
       THEN lpc' = "raised" /\ report' = report
       ELSE /\ lpc' = "done"
            /\ report' = IF ~result /\ explain
                         THEN DifferenceReport(m1, m2) ELSE {}
    /\ UNCHANGED <<max_rounds, explain, probe, count, heap, m1, m2, ref_count1,
                   ref_count2, result, calls, eqLog, steady, roundLog,
                   staleAtStart>>
    /\ UNCHANGED <<sessVars, auditVars, traceVars, modeVars, refVars,
                   printVars, importVars, envVars, cacheVars>>

NextLeak == StartCheck \/ Round \/ Finish

-----------------------------------------------------------------------------
(* The search modes.  nuitka/tools/testing/SearchModes.py is not among the  *)
(* source files; its classes are modelled from the specification's         *)
(* section 4.1.                                                            *)

Cases == 1..NumCases
Patterns == {"x", "y"}
ModeKinds == {"All", "ByPattern", "Immediate", "Only", "Resume", "Coverage"}

\* Which cases a pattern matches.
PatternMatches(p, c) == (p = "x" /\ c = 1) \/ (p = "y" /\ c >= 2)

\* search_mode.consider(dirname, filename): whether the case is run.
consider(md, act, c) ==
    CASE md.kind \in {"ByPattern", "Only"} -> PatternMatches(md.pattern, c)
      [] md.kind = "Resume"                -> act
      [] OTHER                             -> TRUE

\* The Resume mode's state after consider: it skips every case up to and
\* including the persisted marker and is active after it.
activeAfterConsider(md, act, from, c) ==
    IF md.kind = "Resume" THEN act \/ c = from ELSE act

\* search_mode.abortOnFinding(dirname, filename).
abortOnFinding(md) == md.kind \in {"Immediate", "ByPattern", "Resume"}

\* search_mode.getExtraFlags(dirname, filename).
getExtraFlags(md) == IF md.kind = "Coverage" THEN <<"coverage">> ELSE <<>>

\* search_mode.onErrorDetected(message): Resume persists the failing case;
\* the session is aborted.
markerAfterError(md, mk, c) == IF md.kind = "Resume" THEN c ELSE mk

\* search_mode.finish(): a Resume session that completed clears the marker.
markerAfterFinish(md, mk) == IF md.kind = "Resume" THEN 0 ELSE mk

-----------------------------------------------------------------------------
(* createSearchMode, lines 1038-1065.  word is the first positional       *)
(* argument ("" when there is none), pos2 the second, optPattern the       *)
(* --pattern option, optAll the --all option.  The result is a mode or     *)
(* "fatal" (assert False).  pattern.replace("/", os.path.sep) leaves a     *)
(* pattern without "/" as it is.                                           *)

ModeWords == {"", "search", "resume", "only", "coverage", "bogus"}

\* "if len(positional_args) >= 2 and not options.pattern:
\*      options.pattern = positional_args[1]", for mode search and only.
effectivePatternMutPositionalFirst(md, pos2, optPattern) ==
    IF md \in {"search", "only"} /\ pos2 # NoPattern
    THEN pos2 ELSE optPattern
effectivePattern(md, pos2, optPattern) ==
    IF md \in {"search", "only"} /\ pos2 # NoPattern /\ optPattern = NoPattern
    THEN pos2 ELSE optPattern

\* Mode "only": SearchModeOnly(pattern) if there is a pattern, else
\* "assert False".
onlyModeMutLenient(pattern) == Mode("Only", pattern)
onlyMode(pattern) ==
    IF pattern # NoPattern THEN Mode("Only", pattern)
    ELSE Mode("fatal", NoPattern)

createSearchMode(word, pos2, optPattern, optAll) ==
    LET md      == IF word = "" THEN "search" ELSE word
        pattern == effectivePattern(md, pos2, optPattern)
    IN  CASE md = "search" ->
               IF optAll THEN Mode("All", NoPattern)
               ELSE IF pattern # NoPattern THEN Mode("ByPattern", pattern)
               ELSE Mode("Immediate", NoPattern)
          [] md = "resume" -> Mode("Resume", NoPattern)
          [] md = "only" -> onlyMode(pattern)
          [] md = "coverage" -> Mode("Coverage", NoPattern)
          [] OTHER -> Mode("fatal", NoPattern)

-----------------------------------------------------------------------------
(* The session: the loop of compileLibraryPath over the sorted cases, each *)
(* considered case handed to compareWithCPython or to                      *)
(* checkCompilesNotWithCPython, then search_mode.finish().                 *)

\* Exit statuses of the comparator and of the compile-only checker.
ResultCodes == {0, 1, 2, 3}

\* The state before the first session; the leak detector is not running.
InitSession ==
    /\ spc = "idle"
    /\ mode = Mode("Immediate", NoPattern)
    /\ active = TRUE
    /\ resumeFrom = 0
    /\ marker = 0
    /\ cur = 1
    /\ exitStatus = 0
    /\ tmpCopy = FALSE
    /\ atTest = FALSE
    /\ log = <<>>
    /\ events = <<>>
    /\ lastCall = NoCall
    /\ resumeEnd = NoPrev
    /\ prev = NoPrev
    /\ sessions = 0
    /\ apc = "input"
    /\ loaded_filenames = <<>>
    /\ white_list = <<>>
    /\ violations = <<>>
    /\ tpc = "input"
    /\ tracer_present = TRUE
    /\ exit_strace = 0
    /\ stderr_strace = <<>>
    /\ loaded = <<>>
    /\ contributed = <<>>
    /\ sidecar = FALSE
    /\ lpc = "idle"
    /\ max_rounds = DefaultMaxRounds
    /\ explain = FALSE
    /\ probe = [kind |-> "noisy", type |-> "other", text |-> "a", rc |-> 1]
    /\ count = 0
    /\ heap = PermanentObjs
    /\ ref_count1 = InitialRefCount
    /\ ref_count2 = InitialRefCount
    /\ result = FALSE
    /\ report = {}
    /\ calls = 0
    /\ eqLog = <<>>
    /\ steady = TRUE
    /\ roundLog = <<>>
    /\ staleAtStart = FALSE
    /\ m1 = EmptyMap
    /\ m2 = EmptyMap
    /\ cpc = "idle"
    /\ argv = NoArgs
    /\ search_mode = NoMode
    /\ rpc = "idle"
    /\ names = {}
    /\ tests_skipped = {}
    /\ tests_stderr = {}
    /\ todo = <<>>
    /\ ran = <<>>
    /\ all_passed = TRUE
    /\ gc_enabled = TRUE
    /\ sys_stderr = "stderr"
    /\ builtin_print = "print"
    /\ orig_print = "None"
    /\ printLog = <<>>
    /\ lastPrint = NoPrintCall
    /\ ipc = "idle"
    /\ sys_path = <<>>
    /\ sys_modules = {}
    /\ imp = NoImport
    /\ import_calls = 0
    /\ environ = NoEnvironment
    /\ frames = <<>>
    /\ lastExit = NoExit
    /\ py3 = TRUE
    /\ epc = "idle"
    /\ v_cache = EmptyMap
    /\ detected = EmptyMap
    /\ lastDetect = NoDetect
    /\ detect_calls = 0
    /\ started = 0

\* How a Resume session that ends is remembered.
endAfter(md, outcome, c) ==
    IF md.kind = "Resume" THEN [kind |-> outcome, at |-> c] ELSE resumeEnd

\* A new process: createSearchMode, and for Resume the marker is read.
StartSession ==
    /\ spc \in {"idle", "finished", "exited"}
    /\ sessions < MaxSessions
    /\ \E word \in ModeWords, pos2 \in Patterns \cup {NoPattern},
          optPattern \in Patterns \cup {NoPattern}, optAll \in BOOLEAN :
         LET md == createSearchMode(word, pos2, optPattern, optAll)
         IN  /\ mode' = md
             /\ spc' = IF md.kind = "fatal" THEN "exited" ELSE "running"
             /\ exitStatus' = IF md.kind = "fatal" THEN 1 ELSE 0
             /\ resumeFrom' = IF md.kind = "Resume" THEN marker ELSE 0
             /\ active' = (md.kind = "Resume" => marker = 0)
    /\ cur' = 1
    /\ log' = <<>>
    /\ events' = <<>>
    /\ lastCall' = NoCall
    /\ prev' = resumeEnd
    /\ sessions' = sessions + 1
    /\ \E t \in BOOLEAN : atTest' = t
    /\ UNCHANGED <<marker, tmpCopy, resumeEnd>>
    /\ UNCHANGED <<leakVars, auditVars, traceVars, modeVars, refVars,
                   printVars, importVars, envVars, cacheVars>>

\* "if not search_mode.consider(root, filename): continue"
SkipsCaseMutNever(considered) == FALSE
SkipsCase(considered) == ~considered

\* Lines 1344-1346: a case the search mode does not consider.
SkipCase ==
    /\ spc = "running"
    /\ cur <= NumCases
    /\ SkipsCase(consider(mode, active, cur))
    /\ active' = activeAfterConsider(mode, active, resumeFrom, cur)
    /\ cur' = cur + 1
    /\ UNCHANGED <<spc, mode, resumeFrom, marker, exitStatus, tmpCopy, atTest,
                   log, events, lastCall, resumeEnd, prev, sessions>>
    /\ UNCHANGED <<leakVars, auditVars, traceVars, modeVars, refVars,
                   printVars, importVars, envVars, cacheVars>>

\* "result != 0 and result != 2" of compareWithCPython (line 401).
IsMismatchMutOnlyOne(r) == r = 1
IsMismatch(r) == r # 0 /\ r # 2

\* "result != 1 and result != 2" of checkCompilesNotWithCPython (line 428).
IsAnomaly(r) == r # 1 /\ r # 2

\* "except KeyboardInterrupt: result = 2" (lines 393-396 and 423-426).
WaitResult(status, interrupted) == IF interrupted THEN 2 ELSE status

\* "if result == 2: sys.exit(2)" (lines 410-412).
ExitsInterrupted(r) == r = 2

Seq1(cond, e) == IF cond THEN <<e>> ELSE <<>>

\* Lines 199-207 of convertUsing2to3: new_path is the original itself when
\* the original lies in the temp directory; the copy onto itself is passed
\* over.
NewPathIsOriginalMutAlways(inTemp) == TRUE
NewPathIsOriginal(inTemp) == inTemp

\* convertUsing2to3 (lines 190-246): whether it converted, and what became of
\* the original: 2to3 -w and the added __file__ line rewrite new_path.
convertUsing2to3(conv, inTemp) ==
    [converted |-> conv,
     original  |-> IF conv /\ NewPathIsOriginal(inTemp) THEN "rewritten"
                   ELSE "intact"]

\* _removeCPythonTestSuiteDir (lines 328-344): whether "@test" exists after
\* it, the removal taken not to fail.
RemoveTestDirMutKeep(exists) == exists
RemoveTestDir(exists) == FALSE

\* What compareWithCPython does, in order, for a case and its inputs:
\* needs: needs_2to3; conv: convertUsing2to3 made a converted copy; found:
\* the comparison runner exists; onErr: on_error is supplied; r: the result
\* of the wait.
compareEvents(md, needs, conv, found, onErr, r) ==
    LET aborts == IsMismatch(r) /\ abortOnFinding(md)
    IN  Seq1(needs, "convertUsing2to3")
        \o (IF ~found THEN <<"sys.exit(no runner)">>
            ELSE <<"getExtraFlags", "removeTestDir", "subprocess.call",
                   "removeTestDir">>
                 \o Seq1(IsMismatch(r), "abortOnFinding")
                 \o (IF aborts
                     THEN Seq1(onErr, "on_error") \o <<"onErrorDetected">>
                     ELSE Seq1(needs /\ conv, "unlink")
                          \o Seq1(ExitsInterrupted(r), "sys.exit(2)")))

\* compareWithCPython (lines 347-412) on the case at the loop's position.
CompareWithCPython ==
    /\ spc = "running"
    /\ cur <= NumCases
    /\ ~SkipsCase(consider(mode, active, cur))
    /\ \E needs \in BOOLEAN, conv \in BOOLEAN, inTemp \in BOOLEAN,
          found \in BOOLEAN, onErr \in BOOLEAN, status \in ResultCodes,
          interrupted \in BOOLEAN, leaves \in BOOLEAN :
         LET r      == WaitResult(status, interrupted)
             ev     == compareEvents(mode, needs, conv, found, onErr, r)
             aborts == found /\ IsMismatch(r) /\ abortOnFinding(mode)
             exits  == ~found \/ aborts \/ ExitsInterrupted(r)
             c2to3  == convertUsing2to3(conv, inTemp)
             unlinked == \E i \in 1..Len(ev) : ev[i] = "unlink"
         IN  /\ (conv => needs)
             /\ (inTemp => conv)
             /\ (leaves => found)
             /\ events' = ev
             /\ log' = IF found
                       THEN Append(log, [case |-> cur, call |-> "compare",
                                         result |-> r,
                                         interrupted |-> interrupted])
                       ELSE log
             /\ tmpCopy' = IF c2to3.converted THEN ~unlinked ELSE tmpCopy
             /\ atTest' = IF found THEN RemoveTestDir(leaves) ELSE atTest
             /\ marker' = IF aborts THEN markerAfterError(mode, marker, cur)
                          ELSE marker
             /\ spc' = IF exits THEN "exited" ELSE "running"
             /\ exitStatus' = IF ~found \/ aborts THEN 1
                              ELSE IF ExitsInterrupted(r) THEN 2 ELSE 0
             /\ resumeEnd' = IF aborts THEN endAfter(mode, "abort", cur)
                             ELSE IF exits THEN endAfter(mode, "other", cur)
                             ELSE resumeEnd
             /\ lastCall' =
                    [call |-> "compare", found |-> found,
                     result |-> r, onErr |-> onErr,
                     returned |-> ~exits,
                     outcome |-> IF ~found THEN "norunner"
                                 ELSE IF aborts THEN "aborted"
                                 ELSE IF ExitsInterrupted(r) THEN "interrupted"
                                 ELSE "returned",
                     converted |-> c2to3.converted,
                     inTemp |-> inTemp,
                     original |-> IF c2to3.original = "rewritten" /\ unlinked
                                  THEN "deleted" ELSE c2to3.original,
                     hadTestDir |-> found /\ atTest,
                     startedWithTestDir |-> found /\ RemoveTestDir(atTest),
                     leftTestDir |-> leaves]
    /\ active' = activeAfterConsider(mode, active, resumeFrom, cur)
    /\ cur' = cur + 1
    /\ UNCHANGED <<mode, resumeFrom, prev, sessions>>
    /\ UNCHANGED <<leakVars, auditVars, traceVars, modeVars, refVars,
                   printVars, importVars, envVars, cacheVars>>

\* What checkCompilesNotWithCPython does, in order.
compileEvents(md, r) ==
    <<"subprocess.call">>
    \o Seq1(IsAnomaly(r), "abortOnFinding")
    \o Seq1(IsAnomaly(r) /\ abortOnFinding(md), "onErrorDetected")

\* checkCompilesNotWithCPython (lines 415-429) on the case at the loop's
\* position.
CheckCompilesNotWithCPython ==
    /\ spc = "running"
    /\ cur <= NumCases
    /\ ~SkipsCase(consider(mode, active, cur))
    /\ \E status \in ResultCodes, interrupted \in BOOLEAN :
         LET r      == WaitResult(status, interrupted)
             aborts == IsAnomaly(r) /\ abortOnFinding(mode)
         IN  /\ events' = compileEvents(mode, r)
             /\ log' = Append(log, [case |-> cur, call |-> "compile",
                                    result |-> r, interrupted |-> interrupted])
             /\ marker' = IF aborts THEN markerAfterError(mode, marker, cur)
                          ELSE marker
             /\ spc' = IF aborts THEN "exited" ELSE "running"
             /\ exitStatus' = IF aborts THEN 1 ELSE 0
             /\ resumeEnd' = IF aborts THEN endAfter(mode, "abort", cur)
                             ELSE resumeEnd
             /\ lastCall' = [NoCall EXCEPT !.call = "compile",
                                            !.found = TRUE,
                                            !.result = r,
                                            !.returned = ~aborts,
                                            !.outcome = IF aborts THEN "aborted"
                                                        ELSE "returned"]
    /\ active' = activeAfterConsider(mode, active, resumeFrom, cur)
    /\ cur' = cur + 1
    /\ UNCHANGED <<mode, resumeFrom, tmpCopy, atTest, prev, sessions>>
    /\ UNCHANGED <<leakVars, auditVars, traceVars, modeVars, refVars,
                   printVars, importVars, envVars, cacheVars>>

\* "search_mode.finish()" at the end of compileLibraryTest (line 1379).
FinishSession ==
    /\ spc = "running"
    /\ cur > NumCases
    /\ spc' = "finished"
    /\ marker' = markerAfterFinish(mode, marker)
    /\ resumeEnd' = endAfter(mode, "clean", 0)
    /\ UNCHANGED <<mode, active, resumeFrom, cur, exitStatus, tmpCopy, atTest,
                   log, events, lastCall, prev, sessions>>
    /\ UNCHANGED <<leakVars, auditVars, traceVars, modeVars, refVars,
                   printVars, importVars, envVars, cacheVars>>

NextSession ==
    \/ StartSession
    \/ SkipCase
    \/ CompareWithCPython
    \/ CheckCompilesNotWithCPython
    \/ FinishSession

Spec == InitSession /\ [][NextSession]_vars

-----------------------------------------------------------------------------
(* Claims about the test session, checked under Spec.                      *)

Count(ev, e) == Cardinality({i \in 1..Len(ev) : ev[i] = e})

Precedes(ev, a, b) ==
    \A i, j \in 1..Len(ev) : (ev[i] = a /\ ev[j] = b) => i < j

\* C2: in Immediate mode, whatever the exit statuses, the session aborts at
\* the first case whose comparator exit status is neither 0 nor 2, and no
\* process is started for any case after that one.
C2_ImmediateAbortsAtFirstMismatch ==
    (spc # "idle" /\ mode.kind = "Immediate") =>
        \A i \in 1..Len(log) :
            (log[i].call = "compare" /\ log[i].result \notin {0, 2}) =>
                i = Len(log) /\ spc = "exited" /\ exitStatus = 1

\* C2 witness: an Immediate session passed its first case and aborted at
\* the second, whose comparator exited with status 3.
C2_Witness ==
    /\ mode.kind = "Immediate" /\ spc = "exited" /\ Len(log) = 2
    /\ log[1].call = "compare" /\ log[1].result = 0
    /\ log[2].call = "compare" /\ log[2].result = 3

\* C3 (as claimed): an interrupt during a process wait of compareWithCPython
\* or of checkCompilesNotWithCPython ends the session with status 2 in
\* every search mode, and no case is started after the interrupted one.
C3_InterruptEndsSession ==
    \A i \in 1..Len(log) :
        log[i].interrupted =>
            i = Len(log) /\ spc = "exited" /\ exitStatus = 2

\* C4: a Resume session that follows a Resume session aborted at case k
\* runs none of the cases 1..k and starts at case k+1; a Resume session
\* that completes clears the marker, and the Resume session after it starts
\* at case 1.
C4_ResumeStartsAfterMarker ==
    /\ (spc # "idle" /\ mode.kind = "Resume" /\ prev.kind = "abort") =>
          /\ \A i \in 1..Len(log) : log[i].case > prev.at
          /\ log # <<>> => log[1].case = prev.at + 1
    /\ (spc # "idle" /\ mode.kind = "Resume" /\ prev.kind = "clean") =>
          (log # <<>> => log[1].case = 1)
    /\ (spc = "finished" /\ mode.kind = "Resume") => marker = 0
    /\ (mode.kind = "Resume" /\ resumeEnd.kind = "abort") =>
          marker = resumeEnd.at

\* C4 witness: the Resume session before aborted at case 1 and this Resume
\* session started at case 2.
C4_Witness ==
    /\ mode.kind = "Resume" /\ prev.kind = "abort" /\ prev.at = 1
    /\ log # <<>> /\ log[1].case = 2

\* C5: compareWithCPython classifies the comparator's exit status: 0 calls
\* neither on_error nor onErrorDetected and returns normally; 2 calls
\* neither and ends the session with exit status 2; any other status
\* consults abortOnFinding exactly once and, if and only if it answers
\* abort, calls on_error (when supplied) and then onErrorDetected.
C5_ExitStatusClassification ==
    (lastCall.call = "compare" /\ lastCall.found) =>
        LET r       == lastCall.result
            asked   == Count(events, "abortOnFinding")
            onError == Count(events, "on_error")
            detect  == Count(events, "onErrorDetected")
        IN  /\ r = 0 => onError = 0 /\ detect = 0 /\ lastCall.returned
            /\ r = 2 => /\ onError = 0 /\ detect = 0
                        /\ ~lastCall.returned
                        /\ spc = "exited" /\ exitStatus = 2
            /\ r \notin {0, 2} =>
                  /\ asked = 1
                  /\ detect = (IF abortOnFinding(mode) THEN 1 ELSE 0)
                  /\ onError = (IF abortOnFinding(mode) /\ lastCall.onErr
                                THEN 1 ELSE 0)
                  /\ Precedes(events, "abortOnFinding", "on_error")
                  /\ Precedes(events, "on_error", "onErrorDetected")

\* C5 witness: status 3 in an aborting mode with on_error supplied.
C5_Witness ==
    /\ lastCall.call = "compare" /\ lastCall.found /\ lastCall.result = 3
    /\ lastCall.onErr
    /\ Count(events, "on_error") = 1 /\ Count(events, "onErrorDetected") = 1

\* A call of compareWithCPython that reached the comparator has ended.
Compared == lastCall.call = "compare" /\ lastCall.found

\* C16 (as claimed): whenever the conversion created a converted copy, the
\* copy has been deleted when compareWithCPython finishes, for every
\* comparator outcome: pass, mismatch without abort, mismatch with abort and
\* interrupt.
C16_ConvertedCopyDeleted ==
    (Compared /\ lastCall.converted) => ~tmpCopy

\* C17 (as claimed): a comparison that converts never modifies or deletes
\* the original, wherever the original lies, the temp directory included.
C17_OriginalUntouched ==
    (lastCall.call = "compare" /\ lastCall.converted) =>
        lastCall.original = "intact"

\* C17 (amended): a comparison that converts leaves an original outside the
\* temp directory untouched; an original that lies in the temp directory is
\* the file the conversion rewrites, and it is the file that is deleted when
\* compareWithCPython reaches its unlink.
C17_OriginalOutsideTempUntouched ==
    (lastCall.call = "compare" /\ lastCall.converted) =>
        /\ ~lastCall.inTemp => lastCall.original = "intact"
        /\ lastCall.inTemp =>
              /\ lastCall.original # "intact"
              /\ lastCall.original = "deleted"
                    <=> lastCall.outcome \in {"returned", "interrupted"}

\* C17 witness: an original outside the temp directory was converted and
\* compared, the call returned, and the original is intact while the copy is
\* gone.
C17_Witness ==
    /\ Compared /\ lastCall.converted /\ ~lastCall.inTemp
    /\ lastCall.outcome = "returned"
    /\ lastCall.original = "intact"
    /\ ~tmpCopy

LeakSpec == InitLeak /\ [][NextLeak]_vars

-----------------------------------------------------------------------------
(* Claims about the leak detector, checked under LeakSpec.                 *)

Returned == lpc = "done"

\* C1: a session ends in exactly one of two ways: it returns True at the
\* first round whose total before the probe equals the total after it, or
\* it returns False after max_rounds rounds that all showed unequal totals.
\* It never returns False before max_rounds rounds have run, the probe is
\* never invoked more than max_rounds times, and no session ends otherwise.
C1_SessionEndsOneOfTwoWays ==
    /\ lpc # "raised"
    /\ Len(eqLog) = calls
    /\ lpc # "idle" => calls <= max_rounds
    /\ Returned =>
         \/ /\ result = TRUE
            /\ calls >= 1
            /\ eqLog[calls]
            /\ \A i \in 1..(calls - 1) : ~eqLog[i]
         \/ /\ result = FALSE
            /\ calls = max_rounds
            /\ \A i \in 1..calls : ~eqLog[i]

\* C1 witness: a session returned True at its third round of four or more.
C1_Witness ==
    Returned /\ result /\ calls = 3 /\ max_rounds > 3 /\ ~eqLog[1] /\ ~eqLog[2]

\* C6: for a probe with no net allocation between any two rounds (no call
\* after the first changes the heap), the session returns True after at most
\* two probe invocations, for every max_rounds >= 2.
C6_SteadyProbeConvergesWithinTwo ==
    (Returned /\ steady /\ max_rounds >= 2) => (result = TRUE /\ calls <= 2)

\* C6 witness: the first call allocated, the second did not, and the session
\* returned True at round two.
C6_Witness ==
    Returned /\ steady /\ max_rounds >= 2 /\ calls = 2 /\ result /\ ~eqLog[1]

\* The object the probe retained in the last round.
LastRetained == heap[Len(heap)]

C8_AlwaysAllRounds == Returned => calls = max_rounds

\* C8 (amended): a session that returns False has invoked the probe exactly
\* max_rounds times and its last two totals differ; a session that returns
\* True stopped at a round with equal totals, after at most max_rounds
\* invocations.
C8_AllRoundsOnlyOnFailure ==
    Returned =>
        IF result THEN calls <= max_rounds /\ ref_count1 = ref_count2
        ELSE calls = max_rounds /\ ref_count1 # ref_count2

\* C8 witness: a session returned True before max_rounds rounds had run.
C8_Witness == Returned /\ result /\ calls < max_rounds

\* The keys of the two snapshots.
SnapshotKeys == DOMAIN m1 \cup DOMAIN m2

\* The entries of the report for a key.
ReportedFor(k) == {e \in report : e.key = k}

\* The difference report of a failed explained session has been produced.
Reported == Returned /\ explain /\ ~result

\* C19 (as claimed): the report of a failed explained session covers the
\* two snapshots: a key in both with different counts is reported once as a
\* before/after pair, a key only in the after snapshot once as newly leaked
\* and not as missing, a key only in the before snapshot once as missing,
\* and a key with equal counts is not reported.
C19_ReportCoversSnapshots ==
    Reported =>
        \A k \in SnapshotKeys :
            /\ (k \in DOMAIN m1 /\ k \in DOMAIN m2 /\ m1[k] # m2[k]) =>
                  ReportedFor(k) = {[label |-> "changed", key |-> k,
                                     before |-> m1[k], after |-> m2[k]]}
            /\ (k \in DOMAIN m1 /\ k \in DOMAIN m2 /\ m1[k] = m2[k]) =>
                  ReportedFor(k) = {}
            /\ (k \notin DOMAIN m1) =>
                  /\ Cardinality(ReportedFor(k)) = 1
                  /\ \A e \in ReportedFor(k) :
                        e.label \notin {"missing", "changed"}
                            /\ e.after = m2[k]
            /\ (k \notin DOMAIN m2) =>
                  ReportedFor(k) = {[label |-> "missing", key |-> k,
                                     before |-> m1[k], after |-> 0]}

\* The rounds of the session that took a snapshot.
IsSnapshot(ev) ==
    ev \in {"snapObjRefCntMap(before=True)", "snapObjRefCntMap(before=False)"}

\* The keys of the objects a session can hold: those of the heap it began
\* with and of what its probe retained or allocated.
SessionKeys ==
    {CensusKey(heap[i]) : i \in 1..Len(heap)}
        \cup {CensusKey(o) : o \in ObjUniverse}

\* The keys the census maps themselves would get as objects.
MapObjectKeys ==
    {CensusKey(PermanentObjs[i]) :
        i \in {j \in 1..Len(PermanentObjs) :
                  PermanentObjs[j].type \in {"m1", "m2"}}}

\* The session read a census map: it took a snapshot or printed a report.
ReadsMaps ==
    \/ report # {}
    \/ \E i \in 1..Len(roundLog) :
          \E j \in 1..Len(roundLog[i]) : IsSnapshot(roundLog[i][j])

\* C21 (as claimed): the census maps are reset at the start of every
\* session: once a session has begun, with or without explain, a map holds
\* no entry of an earlier session and no census map as an object.
C21_ResetInEverySession ==
    lpc # "idle" =>
        \A k \in DOMAIN m1 \cup DOMAIN m2 :
            k \in SessionKeys /\ k \notin MapObjectKeys

\* C21 (amended): the census maps are reset at the start of every session
\* with explain, and only such a session reads them: once it has begun, a
\* map holds no entry of an earlier session and no census map as an object;
\* a session without explain neither resets nor reads the maps.
C21_CensusMapsAreScratch ==
    /\ (lpc # "idle" /\ explain) =>
          \A k \in DOMAIN m1 \cup DOMAIN m2 :
              k \in SessionKeys /\ k \notin MapObjectKeys
    /\ (lpc # "idle" /\ explain /\ calls = 0) =>
          m1 = EmptyMap /\ m2 = EmptyMap
    /\ ReadsMaps => explain
    /\ (lpc # "idle" /\ ~explain) =>
          (staleAtStart <=> (m1 # EmptyMap \/ m2 # EmptyMap))

\* C21 witness: a session with explain began with entries of an earlier
\* session in both maps, failed and printed its report.
C21_Witness ==
    Returned /\ explain /\ staleAtStart /\ ~result /\ report # {}

\* C20: when explain is requested and the session fails, the last round took
\* the before snapshot ahead of the probe and the after snapshot behind it,
\* so both are taken when the report is produced; and no round before the
\* last of any session takes a snapshot.
C20_SnapshotsOfLastRound ==
    /\ \A i \in 1..Len(roundLog) :
          i < max_rounds => \A j \in 1..Len(roundLog[i]) :
                                ~IsSnapshot(roundLog[i][j])
    /\ (explain /\ ~result /\ lpc \in {"after", "done", "raised"}) =>
          /\ Len(roundLog) = max_rounds
          /\ LET last == roundLog[max_rounds]
             IN  /\ Count(last, "snapObjRefCntMap(before=True)") = 1
                 /\ Count(last, "snapObjRefCntMap(before=False)") = 1
                 /\ Count(last, "checked_function") = 1
                 /\ Precedes(last, "snapObjRefCntMap(before=True)",
                             "checked_function")
                 /\ Precedes(last, "checked_function",
                             "snapObjRefCntMap(before=False)")

\* C20 witness: an explained session of three rounds failed and produced
\* its report.
C20_Witness ==
    Reported /\ max_rounds = 3 /\ Len(roundLog) = 3 /\ report # {}

-----------------------------------------------------------------------------
(* The sandbox audit, checkRuntimeLoadedFilesForOutsideAccesses.            *)
(*                                                                         *)
(* A path is a sequence of tokens; the token "/" is the separator and every *)
(* other token stands for a run of characters without a separator.  The    *)
(* tokens used below are chosen so that no comparison places a token       *)
(* against a proper prefix of it: a string is then a prefix of another     *)
(* exactly when its token sequence is a prefix of the other's.             *)

Sep == "/"
Dot == <<".">>
DotDot == <<".", ".">>

\* str.startswith
StartsWith(s, t) == Len(t) <= Len(s) /\ SubSeq(s, 1, Len(t)) = t

\* the "in" operator on strings
Contains(s, t) ==
    \E i \in 1..(Len(s) - Len(t) + 1) : SubSeq(s, i, i + Len(t) - 1) = t

\* str.rfind("/") + 1
LastSep(s) ==
    LET found == {i \in 1..Len(s) : s[i] = Sep}
    IN  IF found = {} THEN 0 ELSE CHOOSE i \in found : \A j \in found : j <= i

\* str.rstrip("/")
RECURSIVE RStripSep(_)
RStripSep(s) ==
    IF s # <<>> /\ s[Len(s)] = Sep THEN RStripSep(SubSeq(s, 1, Len(s) - 1))
    ELSE s

\* posixpath.dirname
dirname(s) ==
    LET head == SubSeq(s, 1, LastSep(s))
    IN  IF head # <<>> /\ (\E i \in 1..Len(head) : head[i] # Sep)
        THEN RStripSep(head)
        ELSE head

\* posixpath.basename
basename(s) == SubSeq(s, LastSep(s) + 1, Len(s))

\* str.split("/")
RECURSIVE SplitFrom(_, _)
SplitFrom(s, comp) ==
    IF s = <<>> THEN <<comp>>
    ELSE IF Head(s) = Sep THEN <<comp>> \o SplitFrom(Tail(s), <<>>)
    ELSE SplitFrom(Tail(s), Append(comp, Head(s)))

Split(s) == SplitFrom(s, <<>>)

\* "/".join
RECURSIVE Join(_)
Join(comps) ==
    IF comps = <<>> THEN <<>>
    ELSE IF Len(comps) = 1 THEN comps[1]
    ELSE comps[1] \o <<Sep>> \o Join(Tail(comps))

\* the component loop of posixpath.normpath
RECURSIVE NormComps(_, _, _)
NormComps(comps, new, initial) ==
    IF comps = <<>> THEN new
    ELSE LET c == Head(comps)
             rest == Tail(comps)
         IN  IF c = <<>> \/ c = Dot THEN NormComps(rest, new, initial)
             ELSE IF \/ c # DotDot
                     \/ (initial = 0 /\ new = <<>>)
                     \/ (new # <<>> /\ new[Len(new)] = DotDot)
                  THEN NormComps(rest, Append(new, c), initial)
             ELSE IF new # <<>>
                  THEN NormComps(rest, SubSeq(new, 1, Len(new) - 1), initial)
             ELSE NormComps(rest, new, initial)

\* posixpath.normpath
normpath(s) ==
    IF s = <<>> THEN Dot
    ELSE LET initial ==
                 IF ~StartsWith(s, <<Sep>>) THEN 0
                 ELSE IF StartsWith(s, <<Sep, Sep>>)
                         /\ ~StartsWith(s, <<Sep, Sep, Sep>>) THEN 2
                 ELSE 1
             path == [i \in 1..initial |-> Sep]
                         \o Join(NormComps(Split(s), <<>>, initial))
         IN  IF path = <<>> THEN Dot ELSE path

\* posixpath.normcase
normcase(s) == s

\* Lines 668-669: the form of an accessed path that the audit examines.
Normalized(s) == normcase(normpath(s))

\* Line 674 with the prefix test replaced by equality.
StartsWithEntryMutEqual(loaded_filename, entry) == loaded_filename = entry

\* Line 674.
StartsWithEntry(loaded_filename, entry) == StartsWith(loaded_filename, entry)

\* Lines 677-686 stopping after the first dirname.
DirnameWalkMutOneLevel(loaded_filename, entry) ==
    entry # <<>> /\ dirname(entry) # entry /\ loaded_filename = dirname(entry)

\* Lines 677-686: TRUE iff the walk up from the entry meets the path.
RECURSIVE DirnameWalk(_, _)
DirnameWalk(loaded_filename, entry) ==
    IF entry = <<>> THEN FALSE
    ELSE LET up == dirname(entry)
         IN  IF up = entry THEN FALSE
             ELSE IF loaded_filename = up THEN TRUE
             ELSE DirnameWalk(loaded_filename, up)

\* Lines 672-686 with ok assigned anew for every entry.
WhiteListLoopMutReset(loaded_filename, entries, ok) ==
    /\ entries # <<>>
    /\ \/ StartsWithEntry(loaded_filename, entries[Len(entries)])
       \/ DirnameWalk(loaded_filename, entries[Len(entries)])

\* Lines 672-686: the value of ok after the loop over the whitelist.
RECURSIVE WhiteListLoop(_, _, _)
WhiteListLoop(loaded_filename, entries, ok) ==
    IF entries = <<>> THEN ok
    ELSE WhiteListLoop(loaded_filename, Tail(entries),
                       \/ ok
                       \/ StartsWithEntry(loaded_filename, Head(entries))
                       \/ DirnameWalk(loaded_filename, Head(entries)))

\* Lines 728-757: the system C libraries.
SystemLibraryPrefixes ==
    { <<"ld-linux-x86-64.so">>, <<"libc.so.">>, <<"libpthread.so.">>,
      <<"libm.so.">>, <<"libdl.so.">>, <<"libBrokenLocale.so.">>,
      <<"libSegFault.so">>, <<"libanl.so.">>, <<"libcidn.so.">>,
      <<"libcrypt.so.">>, <<"libmemusage.so">>, <<"libmvec.so.">>,
      <<"libnsl.so.">>, <<"libnss_compat.so.">>, <<"libnss_db.so.">>,
      <<"libnss_dns.so.">>, <<"libnss_files.so.">>, <<"libnss_hesiod.so.">>,
      <<"libnss_nis.so.">>, <<"libnss_nisplus.so.">>, <<"libpcprofile.so">>,
      <<"libresolv.so.">>, <<"librt.so.">>, <<"libthread_db-1.0.so">>,
      <<"libthread_db.so.">>, <<"libutil.so.">> }

\* Lines 690-775: the fixed exemptions, in the order of the code.
Exempt(loaded_filename, loaded_basename) ==
    \/ StartsWith(loaded_filename, <<Sep, "etc", Sep>>)
    \/ StartsWith(loaded_filename, <<Sep, "usr", Sep, "etc">>)
    \/ StartsWith(loaded_filename, <<Sep, "proc", Sep>>)
    \/ loaded_filename = <<Sep, "proc">>
    \/ StartsWith(loaded_filename, <<Sep, "dev", Sep>>)
    \/ StartsWith(loaded_filename, <<Sep, "tmp", Sep>>)
    \/ StartsWith(loaded_filename, <<Sep, "run", Sep>>)
    \/ StartsWith(loaded_filename, <<Sep, "sys", Sep>>)
    \/ StartsWith(loaded_filename, <<Sep, "usr", Sep, "lib", Sep, "locale", Sep>>)
    \/ StartsWith(loaded_filename, <<Sep, "usr", Sep, "share", Sep, "locale", Sep>>)
    \/ StartsWith(loaded_filename,
                  <<Sep, "usr", Sep, "share", Sep, "X11", Sep, "locale", Sep>>)
    \/ StartsWith(loaded_filename, <<Sep, "usr", Sep, "share", Sep, "themes">>)
    \/ (Contains(loaded_filename, <<"gtk">>)
          /\ Contains(loaded_filename, <<Sep, "engines", Sep>>))
    \/ StartsWith(loaded_filename, <<Sep, "lib", Sep, "terminfo", Sep>>)
    \/ \E prefix \in SystemLibraryPrefixes : StartsWith(loaded_basename, prefix)
    \/ StartsWith(loaded_basename, <<"libz.so">>)
    \/ StartsWith(loaded_basename, <<"libgcc_s.so">>)
    \/ loaded_basename = <<"gconv-modules.cache">>
    \/ Contains(loaded_filename, <<Sep, "gconv", Sep>>)
    \/ StartsWith(loaded_basename, <<"libicu">>)
    \/ loaded_basename = <<".Xauthority">>

\* Lines 667-777: the loop over the accessed paths.
RECURSIVE AuditLoop(_, _, _)
AuditLoop(filenames, entries, acc) ==
    IF filenames = <<>> THEN acc
    ELSE LET loaded_filename == Normalized(Head(filenames))
             loaded_basename == basename(loaded_filename)
         IN  IF WhiteListLoop(loaded_filename, entries, FALSE)
             THEN AuditLoop(Tail(filenames), entries, acc)
             ELSE IF Exempt(loaded_filename, loaded_basename)
             THEN AuditLoop(Tail(filenames), entries, acc)
             ELSE AuditLoop(Tail(filenames), entries,
                            Append(acc, loaded_filename))

\* The accessed paths of the audits examined.
LoadedUniverse ==
    { <<Sep>>,
      <<Sep, "opt">>,
      <<Sep, "opt", Sep, "app", Sep, "x">>,
      <<Sep, "opt", Sep, "app", "lication", Sep, "x">>,
      <<Sep, "opt", Sep, Sep, "app", Sep, ".", ".", Sep, "app">>,
      <<Sep, "home", Sep, "x">>,
      <<Sep, "srv">>,
      <<Sep, "srv", Sep, "data">>,
      <<Sep, "usr", Sep, "lib64", Sep, "libc.so.", "6">>,
      <<Sep, "etc", Sep, "passwd">>,
      <<Sep, "tmp">> }

\* The whitelist entries of the audits examined.
EntryUniverse ==
    { <<Sep, "opt", Sep, "app">>,
      <<Sep, "opt", Sep, "app", Sep, "bin">>,
      <<Sep, "home", Sep>>,
      <<Sep, "srv", Sep, Sep, "data">> }

\* The sequences over S of length at most n.
SeqsUpTo(S, n) == UNION {[1..k -> S] : k \in 0..n}

InitAudit ==
    /\ apc = "input"
    /\ loaded_filenames \in SeqsUpTo(LoadedUniverse, MaxLoaded)
    /\ white_list \in SeqsUpTo(EntryUniverse, MaxWhiteList)
    /\ violations = <<>>
    /\ tpc = "input"
    /\ tracer_present = TRUE
    /\ exit_strace = 0
    /\ stderr_strace = <<>>
    /\ loaded = <<>>
    /\ contributed = <<>>
    /\ sidecar = FALSE
    /\ lpc = "idle"
    /\ max_rounds = DefaultMaxRounds
    /\ explain = FALSE
    /\ probe = [kind |-> "none"]
    /\ count = 0
    /\ heap = <<>>
    /\ m1 = EmptyMap
    /\ m2 = EmptyMap
    /\ ref_count1 = InitialRefCount
    /\ ref_count2 = InitialRefCount
    /\ result = FALSE
    /\ report = {}
    /\ calls = 0
    /\ eqLog = <<>>
    /\ steady = TRUE
    /\ roundLog = <<>>
    /\ staleAtStart = FALSE
    /\ spc = "idle"
    /\ mode = Mode("Fast", NoPattern)
    /\ active = FALSE
    /\ resumeFrom = 0
    /\ marker = 0
    /\ cur = 1
    /\ exitStatus = 0
    /\ tmpCopy = FALSE
    /\ atTest = FALSE
    /\ log = <<>>
    /\ events = <<>>
    /\ lastCall = NoCall
    /\ resumeEnd = NoPrev
    /\ prev = NoPrev
    /\ sessions = 0
    /\ cpc = "idle"
    /\ argv = NoArgs
    /\ search_mode = NoMode
    /\ rpc = "idle"
    /\ names = {}
    /\ tests_skipped = {}
    /\ tests_stderr = {}
    /\ todo = <<>>
    /\ ran = <<>>
    /\ all_passed = TRUE
    /\ gc_enabled = TRUE
    /\ sys_stderr = "stderr"
    /\ builtin_print = "print"
    /\ orig_print = "None"
    /\ printLog = <<>>
    /\ lastPrint = NoPrintCall
    /\ ipc = "idle"
    /\ sys_path = <<>>
    /\ sys_modules = {}
    /\ imp = NoImport
    /\ import_calls = 0
    /\ environ = NoEnvironment
    /\ frames = <<>>
    /\ lastExit = NoExit
    /\ py3 = TRUE
    /\ epc = "idle"
    /\ v_cache = EmptyMap
    /\ detected = EmptyMap
    /\ lastDetect = NoDetect
    /\ detect_calls = 0
    /\ started = 0

\* Lines 661-779: one call of the audit.
checkRuntimeLoadedFilesForOutsideAccesses ==
    /\ apc = "input"
    /\ violations' = AuditLoop(loaded_filenames, white_list, <<>>)
    /\ apc' = "done"
    /\ UNCHANGED <<loaded_filenames, white_list>>
    /\ UNCHANGED <<leakVars, sessVars, traceVars, modeVars, refVars,
                   printVars, importVars, envVars, cacheVars>>

NextAudit == checkRuntimeLoadedFilesForOutsideAccesses

AuditSpec == InitAudit /\ [][NextAudit]_vars

-----------------------------------------------------------------------------
(* Claims about the sandbox audit, checked under AuditSpec.                *)

Range(s) == {s[i] : i \in 1..Len(s)}

\* The components of a path: its segments between separators, empty ones
\* dropped.
Segments(s) == SelectSeq(Split(s), LAMBDA c : c # <<>>)

\* The absolute path made of the first k segments of s.
PathOfSegments(s, k) == <<Sep>> \o Join(SubSeq(Segments(s), 1, k))

\* The proper ancestor directories of an absolute path, up to the root.
AncestorDirs(s) ==
    IF StartsWith(s, <<Sep>>)
    THEN {PathOfSegments(s, k) : k \in 0..(Len(Segments(s)) - 1)}
    ELSE {}

\* The directory a whitelist entry names, written without empty segments.
EntryDirectory(e) == PathOfSegments(e, Len(Segments(e)))

\* The accessed paths of the audit, as the audit examines them.
Examined == {Normalized(loaded_filenames[i]) : i \in 1..Len(loaded_filenames)}

\* C9 (as claimed): a path equal to a whitelist entry and a path that has a
\* whitelist entry among its ancestor directories are allowed, while a path
\* that only shares a leading string with a whitelist entry, no entry naming
\* the path, one of its ancestors or a directory below it, is reported unless
\* an exemption applies.
C9_LeadingStringReported ==
    apc = "done" =>
        \A p \in Examined :
            /\ (\E e \in Range(white_list) : p = e \/ e \in AncestorDirs(p))
                   => p \notin Range(violations)
            /\ ( /\ \E e \in Range(white_list) : StartsWith(p, e)
                 /\ \A e \in Range(white_list) :
                        /\ p # e
                        /\ p # EntryDirectory(e)
                        /\ EntryDirectory(e) \notin AncestorDirs(p)
                        /\ p \notin AncestorDirs(e)
                 /\ ~Exempt(p, basename(p)) )
                   => p \in Range(violations)

\* C9 (amended): a path is allowed whenever it starts, as a string, with a
\* whitelist entry.  That covers a path equal to an entry, a path that has
\* an entry among its ancestor directories, and also a path that only shares
\* a leading string with an entry: none of them is reported.
C9_LeadingStringAllowed ==
    apc = "done" =>
        \A p \in Examined : \A e \in Range(white_list) :
            (p = e \/ e \in AncestorDirs(p) \/ StartsWith(p, e))
                => p \notin Range(violations)

\* C9 witness: with entry /opt/app the audit passed /opt/application/x and
\* reported /home/x.
C9_Witness ==
    /\ apc = "done"
    /\ white_list = << <<Sep, "opt", Sep, "app">> >>
    /\ loaded_filenames = << <<Sep, "opt", Sep, "app", "lication", Sep, "x">>,
                             <<Sep, "home", Sep, "x">> >>
    /\ violations = << <<Sep, "home", Sep, "x">> >>

\* C10: an accessed path that equals a proper ancestor directory of some
\* whitelist entry, up to the root, is never reported, wherever the entry
\* stands in the whitelist.
C10_AncestorOfEntryAllowed ==
    apc = "done" =>
        \A p \in Examined : \A i \in 1..Len(white_list) :
            p \in AncestorDirs(white_list[i]) => p \notin Range(violations)

\* C10 witness: the root and /opt are passed for the entry /opt/app/bin that
\* stands first of two entries, while no path starts with an entry.
C10_Witness ==
    /\ apc = "done"
    /\ white_list = << <<Sep, "opt", Sep, "app", Sep, "bin">>,
                       <<Sep, "home", Sep>> >>
    /\ loaded_filenames = << <<Sep>>, <<Sep, "opt">> >>
    /\ violations = <<>>

\* The directories the walk of dirname reaches above an entry: its proper
\* ancestors and, for an entry written with a trailing separator, the entry
\* without it.
DirsAbove(e) ==
    AncestorDirs(e)
        \cup (IF e # <<>> /\ e[Len(e)] = Sep THEN {RStripSep(e)} ELSE {})

\* The whitelist rule: the path starts with an entry or is a directory above
\* an entry.
AllowedByWhiteList(p) ==
    \E e \in Range(white_list) : StartsWith(p, e) \/ p \in DirsAbove(e)

\* The accessed paths in input order, as the audit examines them.
ExaminedSeq ==
    [i \in 1..Len(loaded_filenames) |-> Normalized(loaded_filenames[i])]

\* C11: the audit result is exactly the normalized input paths that are
\* neither allowed by the whitelist nor exempt, in input order: none is
\* dropped, no allowed or exempt path is included, the order is kept.
C11_ResultIsExactlyTheViolations ==
    apc = "done" =>
        violations =
            SelectSeq(ExaminedSeq,
                      LAMBDA p : ~AllowedByWhiteList(p)
                                    /\ ~Exempt(p, basename(p)))

\* C11 witness: of two accessed paths the first, equal to the entry after
\* normalization, is passed and the second is reported.
C11_Witness ==
    /\ apc = "done"
    /\ white_list = << <<Sep, "opt", Sep, "app">> >>
    /\ loaded_filenames =
           << <<Sep, "opt", Sep, Sep, "app", Sep, ".", ".", Sep, "app">>,
              <<Sep, "tmp">> >>
    /\ violations = << <<Sep, "tmp">> >>

\* The audit under changes of the whitelist.  A report is audited path by
\* path, ok being set anew for each (line 671), so the reports here are
\* short and the whitelists are the ones that vary.
MaxAuditedPaths == 1
MaxEntries == 2

InitWhiteLists ==
    /\ apc = "input"
    /\ loaded_filenames \in SeqsUpTo(LoadedUniverse, MaxAuditedPaths)
    /\ white_list \in SeqsUpTo(EntryUniverse, MaxEntries)
    /\ violations = <<>>
    /\ lpc = "idle"
    /\ max_rounds = DefaultMaxRounds
    /\ explain = FALSE
    /\ probe = [kind |-> "none"]
    /\ count = 0
    /\ heap = <<>>
    /\ m1 = EmptyMap
    /\ m2 = EmptyMap
    /\ ref_count1 = InitialRefCount
    /\ ref_count2 = InitialRefCount
    /\ result = FALSE
    /\ report = {}
    /\ calls = 0
    /\ eqLog = <<>>
    /\ steady = TRUE
    /\ roundLog = <<>>
    /\ staleAtStart = FALSE
    /\ spc = "idle"
    /\ mode = Mode("Fast", NoPattern)
    /\ active = FALSE
    /\ resumeFrom = 0
    /\ marker = 0
    /\ cur = 1
    /\ exitStatus = 0
    /\ tmpCopy = FALSE
    /\ atTest = FALSE
    /\ log = <<>>
    /\ events = <<>>
    /\ lastCall = NoCall
    /\ resumeEnd = NoPrev
    /\ prev = NoPrev
    /\ sessions = 0
    /\ tpc = "input"
    /\ tracer_present = TRUE
    /\ exit_strace = 0
    /\ stderr_strace = <<>>
    /\ loaded = <<>>
    /\ contributed = <<>>
    /\ sidecar = FALSE
    /\ cpc = "idle"
    /\ argv = NoArgs
    /\ search_mode = NoMode
    /\ rpc = "idle"
    /\ names = {}
    /\ tests_skipped = {}
    /\ tests_stderr = {}
    /\ todo = <<>>
    /\ ran = <<>>
    /\ all_passed = TRUE
    /\ gc_enabled = TRUE
    /\ sys_stderr = "stderr"
    /\ builtin_print = "print"
    /\ orig_print = "None"
    /\ printLog = <<>>
    /\ lastPrint = NoPrintCall
    /\ ipc = "idle"
    /\ sys_path = <<>>
    /\ sys_modules = {}
    /\ imp = NoImport
    /\ import_calls = 0
    /\ environ = NoEnvironment
    /\ frames = <<>>
    /\ lastExit = NoExit
    /\ py3 = TRUE
    /\ epc = "idle"
    /\ v_cache = EmptyMap
    /\ detected = EmptyMap
    /\ lastDetect = NoDetect
    /\ detect_calls = 0
    /\ started = 0

WhiteListSpec == InitWhiteLists /\ [][NextAudit]_vars

\* The whitelist with one more entry put in at position k + 1.
WithEntry(entries, k, entry) ==
    SubSeq(entries, 1, k) \o <<entry>> \o SubSeq(entries, k + 1, Len(entries))

\* The rearrangements of a whitelist.
Rearrangements(entries) ==
    { [i \in 1..Len(entries) |-> entries[f[i]]] :
        f \in { g \in [1..Len(entries) -> 1..Len(entries)] :
                  \A i, j \in 1..Len(entries) : g[i] = g[j] => i = j } }

\* C27: for the report audited, a whitelist with one more entry, wherever
\* it is put, yields no violation that the audit did not yield, and every
\* rearrangement of the whitelist yields the same violations.
C27_MonotoneAndOrderFree ==
    apc = "done" =>
        /\ \A entry \in EntryUniverse, k \in 0..Len(white_list) :
              Range(AuditLoop(loaded_filenames,
                              WithEntry(white_list, k, entry), <<>>))
                \subseteq Range(violations)
        /\ \A other \in Rearrangements(white_list) :
              AuditLoop(loaded_filenames, other, <<>>) = violations

\* C27 witness: an audit with two different entries, the second of which
\* allows the path of the report while the first does not.
C27_Witness ==
    /\ apc = "done"
    /\ Len(white_list) = 2
    /\ Len(loaded_filenames) = 1
    /\ white_list[1] # white_list[2]
    /\ violations = <<>>
    /\ AuditLoop(loaded_filenames, <<white_list[1]>>, <<>>) # <<>>

-----------------------------------------------------------------------------
(* The access tracer, getRuntimeTraceOfLoadedFiles, for the strategies that *)
(* parse a syscall log (strace, dtruss).                                   *)
(*                                                                         *)
(* A trace line is a sequence of tokens as a path is; the tokens "(" and   *)
(* the quote stand for one character each, which is all that the index     *)
(* arithmetic of the parser relies on.                                     *)

Quote == "\""
Nul == "\\0"

\* bytes.find: the 0-based index of the first occurrence, -1 if none
PyFind(s, tok) ==
    LET found == {i \in 1..Len(s) : s[i] = tok}
    IN  IF found = {} THEN 0 - 1
        ELSE (CHOOSE i \in found : \A j \in found : i <= j) - 1

\* An index of a slice, as python clips it.
PyIndex(s, i) ==
    IF i < 0 THEN (IF Len(s) + i < 0 THEN 0 ELSE Len(s) + i)
    ELSE IF i > Len(s) THEN Len(s) ELSE i

\* s[a:b]
PySlice(s, a, b) == SubSeq(s, PyIndex(s, a) + 1, PyIndex(s, b))

\* posixpath.join of two parts
PathJoin(a, b) ==
    IF StartsWith(b, <<Sep>>) THEN b
    ELSE IF a = <<>> \/ a[Len(a)] = Sep THEN a \o b
    ELSE a \o <<Sep>> \o b

\* os.getcwd() of the harness
Cwd == <<Sep, "cwd">>

\* posixpath.abspath
abspath(s) ==
    IF StartsWith(s, <<Sep>>) THEN normpath(s) ELSE normpath(PathJoin(Cwd, s))

\* _python_executable and the name made of _python_version
PythonExecutable == <<Sep, "opt", Sep, "interp", Sep, "bin", Sep, "python">>
PythonXY == <<"python", "3", "9">>

\* Lines 565-572.
Python3Path == <<Sep, "usr", Sep, "bin", Sep, "python", "3">>
Python3Versions == {"5", "6", "7", "8", "9"}
Python3Aliases == {Python3Path \o <<".", v>> : v \in Python3Versions}

\* Lines 578-597: the value of found after the walk up from the binary.
RECURSIVE BinaryPathWalk(_, _, _)
BinaryPathWalk(filename, binary_path, found) ==
    IF binary_path = <<>> THEN found
    ELSE IF filename = binary_path THEN TRUE
    ELSE IF binary_path = dirname(binary_path) THEN found
    ELSE LET up == dirname(binary_path)
         IN  BinaryPathWalk(filename, up,
                            found \/ filename = PathJoin(up, PythonXY))

\* Line 562: the text between the parenthesis and the first ", ".
FilenameOf(line) ==
    PySlice(line, PyFind(line, "(") + 2, PyFind(line, ", ") - 1)

\* Lines 557-561 without the readlink lines.
IsStatLikeMutNoReadlink(line) ==
    \/ StartsWith(line, <<"lstat", "(">>)
    \/ StartsWith(line, <<"stat", "(">>)

\* Lines 557-561.
IsStatLike(line) ==
    \/ StartsWith(line, <<"lstat", "(">>)
    \/ StartsWith(line, <<"stat", "(">>)
    \/ StartsWith(line, <<"readlink", "(">>)

\* Lines 557-600: the line is a stat of the interpreter and is skipped.
SkippedAsSelfReference(line) ==
    /\ IsStatLike(line)
    /\ LET filename == FilenameOf(line)
       IN  \/ filename = Python3Path
           \/ filename \in Python3Aliases
           \/ BinaryPathWalk(filename, PythonExecutable, FALSE)

\* Line 604: re.findall of the quoted strings, a trailing \0 left out.
RECURSIVE FindQuoted(_)
FindQuoted(line) ==
    LET open == PyFind(line, Quote)
    IN  IF open < 0 THEN <<>>
        ELSE LET rest == SubSeq(line, open + 2, Len(line))
                 close == PyFind(rest, Quote)
             IN  IF close < 0 THEN <<>>
                 ELSE LET content == SubSeq(rest, 1, close)
                          match ==
                              IF content # <<>> /\ content[Len(content)] = Nul
                              THEN SubSeq(content, 1, Len(content) - 1)
                              ELSE content
                      IN  <<match>>
                            \o FindQuoted(SubSeq(rest, close + 2, Len(rest)))

\* Line 548 never taken.
ReportsNotFoundMutNever(line) == FALSE

\* Line 548.
ReportsNotFound(line) == Contains(line, <<"ENOENT">>)

\* Lines 543-605: the paths one line adds to result.
LineContribution(line) ==
    IF line = <<>> THEN <<>>
    ELSE IF ReportsNotFound(line) THEN <<>>
    ELSE IF StartsWith(line, <<"stat", "(">>) /\ Contains(line, <<"S_IFDIR">>)
         THEN <<>>
    ELSE IF SkippedAsSelfReference(line) THEN <<>>
    ELSE LET matches == FindQuoted(line)
         IN  [i \in 1..Len(matches) |-> abspath(matches[i])]

\* Lines 539-605: result after the loop over the lines.
RECURSIVE ParseLines(_, _)
ParseLines(lines, acc) ==
    IF lines = <<>> THEN acc
    ELSE ParseLines(Tail(lines), acc \o LineContribution(Head(lines)))

\* The tokens of the paths in ascending order of their text.
TokenOrder ==
    << ".", "/", "3", "5", "6", "7", "8", "9", "app", "bin", "cwd", "data",
       "exe", "interp", "lib", "missing", "opt", "proc", "python", "self",
       "target", "usr", "x" >>

Rank(tok) == CHOOSE i \in 1..Len(TokenOrder) : TokenOrder[i] = tok

\* The order of strings that sorted() uses.
RECURSIVE LexLess(_, _)
LexLess(a, b) ==
    IF b = <<>> THEN FALSE
    ELSE IF a = <<>> THEN TRUE
    ELSE IF Head(a) = Head(b) THEN LexLess(Tail(a), Tail(b))
    ELSE Rank(Head(a)) < Rank(Head(b))

\* sorted() of a list
RECURSIVE SortedList(_)
SortedList(seq) ==
    IF seq = <<>> THEN <<>>
    ELSE LET least == CHOOSE i \in 1..Len(seq) :
                          \A j \in 1..Len(seq) : ~LexLess(seq[j], seq[i])
             others == [j \in 1..(Len(seq) - 1) |->
                           IF j < least THEN seq[j] ELSE seq[j + 1]]
         IN  <<seq[least]>> \o SortedList(others)

\* Line 656 without set().
SortedSetMutKeepDuplicates(seq) == SortedList(seq)

\* Line 656: list(sorted(set(result)))
SortedSet(seq) == SortedList(SetToSeq({seq[i] : i \in 1..Len(seq)}))

\* Line 529 never taken.
TracerFailedMutNever(status) == FALSE

\* Line 529.
TracerFailed(status) == status # 0

\* A stat or lstat line with the mode it reports.
StatLine(call, path, kind) ==
    <<call, "(", Quote>> \o path \o <<Quote, ", ", "{", kind, "}", ")", " = ", "0">>

\* A readlink line with the link text it reports.
ReadlinkLine(path, target) ==
    <<"readlink", "(", Quote>> \o path \o <<Quote, ", ", Quote>> \o target
        \o <<Quote, ", ", "4096", ")", " = ", "9">>

\* An openat line with its outcome.
OpenatLine(path, outcome) ==
    <<"openat", "(", "AT_FDCWD", ", ", Quote>> \o path
        \o <<Quote, ", ", "O_RDONLY", ")", " = ">> \o outcome

\* The lines of the traces examined.
LineUniverse ==
    { <<>>,
      StatLine("stat", <<Sep, "usr", Sep, "lib", Sep, "x">>, "S_IFREG"),
      StatLine("stat", <<Sep, "usr", Sep, "lib">>, "S_IFDIR"),
      StatLine("lstat", <<Sep, "usr", Sep, "lib">>, "S_IFDIR"),
      StatLine("stat", Python3Path, "S_IFREG"),
      StatLine("lstat", Python3Path \o <<".", "9">>, "S_IFREG"),
      ReadlinkLine(<<Sep, "opt", Sep, "app", Sep, "x">>, <<"target">>),
      ReadlinkLine(<<Sep, "proc", Sep, "self", Sep, "exe">>,
                   Python3Path \o <<".", "9">>),
      ReadlinkLine(PythonExecutable, <<"python", "3", ".", "9">>),
      <<"readlink", "(", Quote, Sep, "missing", Quote, ", ", "0x7ffd", ", ",
        "4096", ")", " = ", "-1", " ", "ENOENT">>,
      OpenatLine(<<Sep, "missing">>, <<"-1", " ", "ENOENT">>),
      OpenatLine(Python3Path, <<"3">>),
      <<"open", "(", Quote, "lib", Sep, ".", ".", Sep, "data", Nul, Quote,
        ", ", "0x0", ", ", "0x0", ")", " = ", "3">> }

\* The exit statuses of the tracer process examined.
TracerStatuses == {0, 1}

InitTrace ==
    /\ tpc = "input"
    /\ tracer_present \in BOOLEAN
    /\ exit_strace \in TracerStatuses
    /\ stderr_strace \in SeqsUpTo(LineUniverse, MaxTraceLines)
    /\ loaded = <<>>
    /\ contributed = <<>>
    /\ sidecar = FALSE
    /\ apc = "input"
    /\ loaded_filenames = <<>>
    /\ white_list = <<>>
    /\ violations = <<>>
    /\ lpc = "idle"
    /\ max_rounds = DefaultMaxRounds
    /\ explain = FALSE
    /\ probe = [kind |-> "none"]
    /\ count = 0
    /\ heap = <<>>
    /\ m1 = EmptyMap
    /\ m2 = EmptyMap
    /\ ref_count1 = InitialRefCount
    /\ ref_count2 = InitialRefCount
    /\ result = FALSE
    /\ report = {}
    /\ calls = 0
    /\ eqLog = <<>>
    /\ steady = TRUE
    /\ roundLog = <<>>
    /\ staleAtStart = FALSE
    /\ spc = "idle"
    /\ mode = Mode("Fast", NoPattern)
    /\ active = FALSE
    /\ resumeFrom = 0
    /\ marker = 0
    /\ cur = 1
    /\ exitStatus = 0
    /\ tmpCopy = FALSE
    /\ atTest = FALSE
    /\ log = <<>>
    /\ events = <<>>
    /\ lastCall = NoCall
    /\ resumeEnd = NoPrev
    /\ prev = NoPrev
    /\ sessions = 0
    /\ cpc = "idle"
    /\ argv = NoArgs
    /\ search_mode = NoMode
    /\ rpc = "idle"
    /\ names = {}
    /\ tests_skipped = {}
    /\ tests_stderr = {}
    /\ todo = <<>>
    /\ ran = <<>>
    /\ all_passed = TRUE
    /\ gc_enabled = TRUE
    /\ sys_stderr = "stderr"
    /\ builtin_print = "print"
    /\ orig_print = "None"
    /\ printLog = <<>>
    /\ lastPrint = NoPrintCall
    /\ ipc = "idle"
    /\ sys_path = <<>>
    /\ sys_modules = {}
    /\ imp = NoImport
    /\ import_calls = 0
    /\ environ = NoEnvironment
    /\ frames = <<>>
    /\ lastExit = NoExit
    /\ py3 = TRUE
    /\ epc = "idle"
    /\ v_cache = EmptyMap
    /\ detected = EmptyMap
    /\ lastDetect = NoDetect
    /\ detect_calls = 0
    /\ started = 0

\* Lines 489-517: the tracer tool is not installed, sys.exit.
TracerMissing ==
    /\ tpc = "input"
    /\ ~tracer_present
    /\ tpc' = "fatal"
    /\ UNCHANGED <<tracer_present, exit_strace, stderr_strace, loaded,
                   contributed, sidecar>>
    /\ UNCHANGED <<leakVars, sessVars, auditVars, modeVars, refVars,
                   printVars, importVars, envVars, cacheVars>>

\* Lines 521-534: the tracer process failed, sys.exit.
TracerFails ==
    /\ tpc = "input"
    /\ tracer_present
    /\ TracerFailed(exit_strace)
    /\ tpc' = "fatal"
    /\ UNCHANGED <<tracer_present, exit_strace, stderr_strace, loaded,
                   contributed, sidecar>>
    /\ UNCHANGED <<leakVars, sessVars, auditVars, modeVars, refVars,
                   printVars, importVars, envVars, cacheVars>>

\* Lines 521-658: the trace is written to the sidecar file, parsed and the
\* report returned.
TraceParsed ==
    /\ tpc = "input"
    /\ tracer_present
    /\ ~TracerFailed(exit_strace)
    /\ sidecar' = TRUE
    /\ contributed' = [i \in 1..Len(stderr_strace) |->
                          LineContribution(stderr_strace[i])]
    /\ loaded' = SortedSet(ParseLines(stderr_strace, <<>>))
    /\ tpc' = "done"
    /\ UNCHANGED <<tracer_present, exit_strace, stderr_strace>>
    /\ UNCHANGED <<leakVars, sessVars, auditVars, modeVars, refVars,
                   printVars, importVars, envVars, cacheVars>>

NextTrace ==
    \/ TracerMissing
    \/ TracerFails
    \/ TraceParsed

TraceSpec == InitTrace /\ [][NextTrace]_vars

-----------------------------------------------------------------------------
(* Claims about the access tracer, checked under TraceSpec.                *)

\* The path argument of a syscall line: its first quoted string.
PathArgument(line) ==
    IF FindQuoted(line) = <<>> THEN <<>> ELSE FindQuoted(line)[1]

\* The expected self-references: the interpreter binary, /usr/bin/python3
\* and its aliases with a version suffix.
SelfReferences == {PythonExecutable, Python3Path} \cup Python3Aliases

\* The syscall a line reports.
CallOf(line) == IF line = <<>> THEN "" ELSE line[1]

\* C12: a line reporting ENOENT contributes no path, a stat() line
\* reporting a directory contributes no path, and a readlink() line whose
\* path argument is a real file other than a self-reference contributes that
\* path, which is then in the report.
C12_LineContributions ==
    tpc = "done" =>
        \A i \in 1..Len(stderr_strace) :
            LET line == stderr_strace[i]
            IN  /\ Contains(line, <<"ENOENT">>) => contributed[i] = <<>>
                /\ (CallOf(line) = "stat" /\ Contains(line, <<"S_IFDIR">>))
                       => contributed[i] = <<>>
                /\ ( /\ CallOf(line) = "readlink"
                     /\ ~Contains(line, <<"ENOENT">>)
                     /\ PathArgument(line) \notin SelfReferences )
                       => /\ PathArgument(line) \in Range(contributed[i])
                          /\ PathArgument(line) \in Range(loaded)

\* C12 witness: a trace with a readlink of a missing file, a stat of a
\* directory and a readlink of /opt/app/x was parsed.
C12_Witness ==
    /\ tpc = "done"
    /\ Len(stderr_strace) = 3
    /\ CallOf(stderr_strace[1]) = "readlink"
    /\ Contains(stderr_strace[1], <<"ENOENT">>)
    /\ CallOf(stderr_strace[2]) = "stat"
    /\ Contains(stderr_strace[2], <<"S_IFDIR">>)
    /\ CallOf(stderr_strace[3]) = "readlink"
    /\ loaded = << <<Sep, "cwd", Sep, "target">>,
                   <<Sep, "opt", Sep, "app", Sep, "x">> >>

\* C13 (as claimed): no self-reference is ever in the report, whichever
\* traced syscall touched it.
C13_SelfReferencesNeverReported ==
    tpc = "done" => \A p \in SelfReferences : p \notin Range(loaded)

\* C13 (amended): a stat, lstat or readlink line whose path argument is a
\* self-reference adds nothing to the report, while an open-family line that
\* found a self-reference adds it, so that the report holds it.
C13_SelfReferencesSkippedForStats ==
    tpc = "done" =>
        \A i \in 1..Len(stderr_strace) :
            LET line == stderr_strace[i]
            IN  PathArgument(line) \in SelfReferences =>
                    /\ CallOf(line) \in {"stat", "lstat", "readlink"}
                           => contributed[i] = <<>>
                    /\ ( /\ CallOf(line) \in {"open", "openat"}
                         /\ ~Contains(line, <<"ENOENT">>) )
                           => /\ PathArgument(line) \in Range(contributed[i])
                              /\ PathArgument(line) \in Range(loaded)

\* C13 witness: a stat, an lstat and a readlink of self-references were
\* parsed and the report is empty.
C13_Witness ==
    /\ tpc = "done"
    /\ Len(stderr_strace) = 3
    /\ \A i \in 1..3 : PathArgument(stderr_strace[i]) \in SelfReferences
    /\ {CallOf(stderr_strace[i]) : i \in 1..3} = {"stat", "lstat", "readlink"}
    /\ loaded = <<>>

C15_TracerFailureIsFatal ==
    /\ (tpc # "input" /\ tracer_present /\ exit_strace # 0) =>
          /\ tpc = "fatal"
          /\ contributed = <<>>
          /\ loaded = <<>>
          /\ ~sidecar
    /\ tpc = "done" => exit_strace = 0

\* C15 witness: the tracer exited with status 1 on a trace of three lines
\* and the call ended in the fatal error.
C15_Witness ==
    /\ tpc = "fatal"
    /\ tracer_present
    /\ exit_strace = 1
    /\ Len(stderr_strace) = 3

-----------------------------------------------------------------------------
(* Mode selection on its own: a test runner parses its command line, calls *)
(* createSearchMode (Common.py lines 981-1065) and, if a mode came back,   *)
(* hands it to compileLibraryTest, whose loop runs the cases.  Assertions  *)
(* are taken as enabled, which is how the runners are started.             *)

\* The command lines: a second positional argument needs a first one.
ArgsUniverse ==
    { a \in { Args(w, p2, op, oa) :
                w \in ModeWords, p2 \in Patterns \cup {NoPattern},
                op \in Patterns \cup {NoPattern}, oa \in BOOLEAN } :
        a.word = "" => a.pos2 = NoPattern }

\* The runner has parsed its command line and is about to select the mode.
InitMode ==
    /\ cpc = "args"
    /\ argv \in ArgsUniverse
    /\ search_mode = NoMode
    /\ lpc = "idle"
    /\ max_rounds = DefaultMaxRounds
    /\ explain = FALSE
    /\ probe = [kind |-> "none"]
    /\ count = 0
    /\ heap = <<>>
    /\ m1 = EmptyMap
    /\ m2 = EmptyMap
    /\ ref_count1 = InitialRefCount
    /\ ref_count2 = InitialRefCount
    /\ result = FALSE
    /\ report = {}
    /\ calls = 0
    /\ eqLog = <<>>
    /\ steady = TRUE
    /\ roundLog = <<>>
    /\ staleAtStart = FALSE
    /\ spc = "idle"
    /\ mode = Mode("Fast", NoPattern)
    /\ active = FALSE
    /\ resumeFrom = 0
    /\ marker = 0
    /\ cur = 1
    /\ exitStatus = 0
    /\ tmpCopy = FALSE
    /\ atTest = FALSE
    /\ log = <<>>
    /\ events = <<>>
    /\ lastCall = NoCall
    /\ resumeEnd = NoPrev
    /\ prev = NoPrev
    /\ sessions = 0
    /\ apc = "input"
    /\ loaded_filenames = <<>>
    /\ white_list = <<>>
    /\ violations = <<>>
    /\ tpc = "input"
    /\ tracer_present = TRUE
    /\ exit_strace = 0
    /\ stderr_strace = <<>>
    /\ loaded = <<>>
    /\ contributed = <<>>
    /\ sidecar = FALSE
    /\ rpc = "idle"
    /\ names = {}
    /\ tests_skipped = {}
    /\ tests_stderr = {}
    /\ todo = <<>>
    /\ ran = <<>>
    /\ all_passed = TRUE
    /\ gc_enabled = TRUE
    /\ sys_stderr = "stderr"
    /\ builtin_print = "print"
    /\ orig_print = "None"
    /\ printLog = <<>>
    /\ lastPrint = NoPrintCall
    /\ ipc = "idle"
    /\ sys_path = <<>>
    /\ sys_modules = {}
    /\ imp = NoImport
    /\ import_calls = 0
    /\ environ = NoEnvironment
    /\ frames = <<>>
    /\ lastExit = NoExit
    /\ py3 = TRUE
    /\ epc = "idle"
    /\ v_cache = EmptyMap
    /\ detected = EmptyMap
    /\ lastDetect = NoDetect
    /\ detect_calls = 0
    /\ started = 0

\* The call of createSearchMode: a mode is returned or the assertion fails.
CreateSearchMode ==
    /\ cpc = "args"
    /\ LET md == createSearchMode(argv.word, argv.pos2, argv.optPattern,
                                  argv.optAll)
       IN  IF md.kind = "fatal"
           THEN /\ cpc' = "fatal"
                /\ search_mode' = NoMode
           ELSE /\ cpc' = "created"
                /\ search_mode' = md
    /\ UNCHANGED argv
    /\ UNCHANGED <<leakVars, sessVars, auditVars, traceVars, refVars,
                   printVars, importVars, envVars, cacheVars>>

\* compileLibraryTest(search_mode, ...): the case loop begins.
EnterCaseLoop ==
    /\ cpc = "created"
    /\ cpc' = "running"
    /\ UNCHANGED <<argv, search_mode>>
    /\ UNCHANGED <<leakVars, sessVars, auditVars, traceVars, refVars,
                   printVars, importVars, envVars, cacheVars>>

NextMode == CreateSearchMode \/ EnterCaseLoop

ModeSpec == InitMode /\ [][NextMode]_vars

\* The pattern in force: the --pattern option, else the second positional.
GivenPattern == IF argv.optPattern # NoPattern THEN argv.optPattern ELSE argv.pos2

\* C22: mode "only" with neither a --pattern option nor a second positional
\* argument is fatal in createSearchMode: no mode is returned and the case
\* loop is never entered.
C22_OnlyWithoutPatternIsFatal ==
    (cpc # "args" /\ argv.word = "only" /\ argv.pos2 = NoPattern
       /\ argv.optPattern = NoPattern)
    => (cpc = "fatal" /\ search_mode = NoMode)

\* C22 witness: such a command line has been through createSearchMode.
C22_Witness ==
    /\ cpc = "fatal"
    /\ argv.word = "only"
    /\ argv.pos2 = NoPattern
    /\ argv.optPattern = NoPattern

\* The mode the arguments select, as the mapping is described; "open" where
\* the description leaves the outcome to another rule (only without pattern).
DescribedMode ==
    CASE argv.word \in {"", "search"} ->
           IF argv.optAll THEN Mode("All", NoPattern)
           ELSE IF GivenPattern # NoPattern THEN Mode("ByPattern", GivenPattern)
           ELSE Mode("Immediate", NoPattern)
      [] argv.word = "resume" -> Mode("Resume", NoPattern)
      [] argv.word = "coverage" -> Mode("Coverage", NoPattern)
      [] argv.word = "only" ->
           IF GivenPattern # NoPattern THEN Mode("Only", GivenPattern)
           ELSE Mode("open", NoPattern)
      [] OTHER -> Mode("fatal", NoPattern)

\* C23: once createSearchMode has acted, the outcome is the one mode the
\* mapping names: All for --all under search or no mode word even with a
\* pattern, else ByPattern for a pattern, else Immediate; Resume, Coverage,
\* Only with its pattern; the option pattern before the positional one; and
\* any other mode word is fatal, returning nothing.
C23_ArgumentsSelectOneMode ==
    (cpc # "args" /\ DescribedMode.kind # "open")
    => IF DescribedMode.kind = "fatal"
       THEN cpc = "fatal" /\ search_mode = NoMode
       ELSE cpc \in {"created", "running"} /\ search_mode = DescribedMode

\* C23 witness: mode "only" with an option pattern and a different
\* positional pattern has been mapped to Only with the option's pattern.
C23_Witness ==
    /\ cpc = "created"
    /\ argv.word = "only"
    /\ argv.optPattern = "x"
    /\ argv.pos2 = "y"
    /\ search_mode = Mode("Only", "x")

-----------------------------------------------------------------------------
(* executeReferenceChecked, Common.py lines 1075-1115.  A name is the      *)
(* prefix or not, followed by a rest of characters; the checks are the     *)
(* names that start with the prefix and end in a digit, run in the order   *)
(* of int(name.replace(prefix, "")).  What checkReferenceCount returns for *)
(* a check is an input of each run.                                        *)

Digits == {"0", "1", "2"}

Name(p, r) == [prefixed |-> p, rest |-> r]

\* The names of the namespace: three numbered checks, a helper that carries
\* the prefix but no number, one whose rest ends in a digit without being
\* a number, and a numbered name without the prefix.
NameUniverse ==
    { Name(TRUE, <<"1">>), Name(TRUE, <<"2">>), Name(TRUE, <<"1", "0">>),
      Name(TRUE, <<"x">>), Name(TRUE, <<"x", "1">>), Name(FALSE, <<"1">>) }

\* "name.startswith(prefix) and name[-1].isdigit()"
Matching(name) == name.prefixed /\ name.rest[Len(name.rest)] \in Digits

\* int(text): defined for a non-empty run of digits, else ValueError.
IsNumber(text) == Len(text) > 0 /\ \A i \in 1..Len(text) : text[i] \in Digits

DigitValue(d) == CASE d = "0" -> 0 [] d = "1" -> 1 [] d = "2" -> 2

RECURSIVE IntOf(_)
IntOf(text) ==
    IF text = <<>> THEN 0
    ELSE 10 * IntOf(SubSeq(text, 1, Len(text) - 1)) + DigitValue(text[Len(text)])

\* extract_number = lambda name: int(name.replace(prefix, ""))
extract_number(name) == IntOf(name.rest)

\* The numbers a caller may name in tests_skipped and tests_stderr.
Numbers == { extract_number(n) : n \in { m \in NameUniverse : IsNumber(m.rest) } }

\* sorted(matching_names, key=extract_number)
RECURSIVE SortedByNumber(_)
SortedByNumber(S) ==
    IF S = {} THEN <<>>
    ELSE LET least == CHOOSE n \in S :
                        \A o \in S : extract_number(n) <= extract_number(o)
         IN  <<least>> \o SortedByNumber(S \ {least})

\* "if not checkReferenceCount(...): result = False"
AccumulateMutLast(res, ok) == ok
Accumulate(res, ok) == res /\ ok

\* The state before the call.
InitRef ==
    /\ rpc = "input"
    /\ names \in SUBSET NameUniverse
    /\ tests_skipped \in SUBSET Numbers
    /\ tests_stderr \in SUBSET {1}
    /\ todo = <<>>
    /\ ran = <<>>
    /\ all_passed = TRUE
    /\ gc_enabled = TRUE
    /\ sys_stderr = "stderr"
    /\ lpc = "idle"
    /\ max_rounds = DefaultMaxRounds
    /\ explain = FALSE
    /\ probe = [kind |-> "none"]
    /\ count = 0
    /\ heap = <<>>
    /\ m1 = EmptyMap
    /\ m2 = EmptyMap
    /\ ref_count1 = InitialRefCount
    /\ ref_count2 = InitialRefCount
    /\ result = FALSE
    /\ report = {}
    /\ calls = 0
    /\ eqLog = <<>>
    /\ steady = TRUE
    /\ roundLog = <<>>
    /\ staleAtStart = FALSE
    /\ spc = "idle"
    /\ mode = Mode("Fast", NoPattern)
    /\ active = FALSE
    /\ resumeFrom = 0
    /\ marker = 0
    /\ cur = 1
    /\ exitStatus = 0
    /\ tmpCopy = FALSE
    /\ atTest = FALSE
    /\ log = <<>>
    /\ events = <<>>
    /\ lastCall = NoCall
    /\ resumeEnd = NoPrev
    /\ prev = NoPrev
    /\ sessions = 0
    /\ apc = "input"
    /\ loaded_filenames = <<>>
    /\ white_list = <<>>
    /\ violations = <<>>
    /\ tpc = "input"
    /\ tracer_present = TRUE
    /\ exit_strace = 0
    /\ stderr_strace = <<>>
    /\ loaded = <<>>
    /\ contributed = <<>>
    /\ sidecar = FALSE
    /\ cpc = "idle"
    /\ argv = NoArgs
    /\ search_mode = NoMode
    /\ builtin_print = "print"
    /\ orig_print = "None"
    /\ printLog = <<>>
    /\ lastPrint = NoPrintCall
    /\ ipc = "idle"
    /\ sys_path = <<>>
    /\ sys_modules = {}
    /\ imp = NoImport
    /\ import_calls = 0
    /\ environ = NoEnvironment
    /\ frames = <<>>
    /\ lastExit = NoExit
    /\ py3 = TRUE
    /\ epc = "idle"
    /\ v_cache = EmptyMap
    /\ detected = EmptyMap
    /\ lastDetect = NoDetect
    /\ detect_calls = 0
    /\ started = 0

\* Lines 1076-1090: gc.disable(), the matching names, and their sort; int()
\* raises ValueError for a rest that is not a number.
BeginReferenceChecked ==
    /\ rpc = "input"
    /\ gc_enabled' = FALSE
    /\ LET matching_names == { n \in names : Matching(n) }
       IN  IF \E n \in matching_names : ~IsNumber(n.rest)
           THEN /\ rpc' = "raised"
                /\ todo' = <<>>
           ELSE /\ rpc' = "loop"
                /\ todo' = SortedByNumber(matching_names)
    /\ all_passed' = TRUE
    /\ UNCHANGED <<names, tests_skipped, tests_stderr, ran, sys_stderr>>
    /\ UNCHANGED <<leakVars, sessVars, auditVars, traceVars, modeVars,
                   printVars, importVars, envVars, cacheVars>>

\* Lines 1094-1096: "if number in tests_skipped: ... continue"
SkipCheck ==
    /\ rpc = "loop"
    /\ todo # <<>>
    /\ extract_number(Head(todo)) \in tests_skipped
    /\ todo' = Tail(todo)
    /\ UNCHANGED <<rpc, names, tests_skipped, tests_stderr, ran, all_passed,
                   gc_enabled, sys_stderr>>
    /\ UNCHANGED <<leakVars, sessVars, auditVars, traceVars, modeVars,
                   printVars, importVars, envVars, cacheVars>>

\* Lines 1099-1112: one check is run; for a number in tests_stderr,
\* sys.stderr is the null device during the check and old_stderr after it.
RunCheck ==
    /\ rpc = "loop"
    /\ todo # <<>>
    /\ extract_number(Head(todo)) \notin tests_skipped
    /\ \E ok \in BOOLEAN :
         /\ ran' = Append(ran, [number |-> extract_number(Head(todo)),
                                ok |-> ok])
         /\ all_passed' = Accumulate(all_passed, ok)
    /\ todo' = Tail(todo)
    /\ UNCHANGED <<rpc, names, tests_skipped, tests_stderr, gc_enabled,
                   sys_stderr>>
    /\ UNCHANGED <<leakVars, sessVars, auditVars, traceVars, modeVars,
                   printVars, importVars, envVars, cacheVars>>

\* Lines 1114-1115: gc.enable() and "return result".
ReturnResult ==
    /\ rpc = "loop"
    /\ todo = <<>>
    /\ rpc' = "returned"
    /\ gc_enabled' = TRUE
    /\ UNCHANGED <<names, tests_skipped, tests_stderr, todo, ran, all_passed,
                   sys_stderr>>
    /\ UNCHANGED <<leakVars, sessVars, auditVars, traceVars, modeVars,
                   printVars, importVars, envVars, cacheVars>>

NextRef == BeginReferenceChecked \/ SkipCheck \/ RunCheck \/ ReturnResult

RefSpec == InitRef /\ [][NextRef]_vars

\* The numbers of the checks: the names with the prefix and a number.
CheckNumbers == { extract_number(n) : n \in { m \in names : Matching(m) } }

\* C24: the checks run so far are in ascending order of their number and
\* none of them is in tests_skipped; when the runner returns, every check
\* with the prefix that is not skipped has been run, also after a failed
\* one, and the value returned is TRUE exactly if every check run passed.
C24_RunsChecksInOrder ==
    /\ \A i, j \in 1..Len(ran) : i < j => ran[i].number < ran[j].number
    /\ \A i \in 1..Len(ran) : ran[i].number \notin tests_skipped
    /\ rpc = "returned" =>
         /\ { ran[i].number : i \in 1..Len(ran) } = CheckNumbers \ tests_skipped
         /\ all_passed = (\A i \in 1..Len(ran) : ran[i].ok)

\* C24 witness: checks 1, 2 and 10 exist, 2 is skipped, check 1 failed and
\* check 10 was still run and passed; the runner returned FALSE.
C24_Witness ==
    /\ rpc = "returned"
    /\ tests_skipped = {2}
    /\ ran = << [number |-> 1, ok |-> FALSE], [number |-> 10, ok |-> TRUE] >>
    /\ CheckNumbers = {1, 2, 10}
    /\ all_passed = FALSE

-----------------------------------------------------------------------------
(* disablePrinting and reenablePrinting, Common.py lines 850-868, and the  *)
(* use checkReferenceCount makes of them (lines 911 and 944).  "print" is  *)
(* the function found in the builtins before the first call, "noop" the    *)
(* lambda that discards its arguments.                                     *)

\* Calls of the three functions in one process.
MaxPrintCalls == 4

\* "if orig_print is None:" of disablePrinting
SavesPrintMutAlways(orig) == TRUE
SavesPrint(orig) == orig = "None"

\* disablePrinting(): the values of orig_print and of the builtin after it.
disablePrinting(orig, builtin) ==
    IF SavesPrint(orig)
    THEN [orig_print |-> builtin, builtin_print |-> "noop"]
    ELSE [orig_print |-> orig, builtin_print |-> builtin]

\* reenablePrinting(): the values of orig_print and of the builtin after it.
reenablePrinting(orig, builtin) ==
    IF orig # "None"
    THEN [orig_print |-> "None", builtin_print |-> orig]
    ELSE [orig_print |-> orig, builtin_print |-> builtin]

PrintCall(name) ==
    [call |-> name, printBefore |-> builtin_print, origBefore |-> orig_print]

\* The state after the module was imported.
InitPrint ==
    /\ builtin_print = "print"
    /\ orig_print = "None"
    /\ printLog = <<>>
    /\ lastPrint = NoPrintCall
    /\ lpc = "idle"
    /\ max_rounds = DefaultMaxRounds
    /\ explain = FALSE
    /\ probe = [kind |-> "none"]
    /\ count = 0
    /\ heap = <<>>
    /\ m1 = EmptyMap
    /\ m2 = EmptyMap
    /\ ref_count1 = InitialRefCount
    /\ ref_count2 = InitialRefCount
    /\ result = FALSE
    /\ report = {}
    /\ calls = 0
    /\ eqLog = <<>>
    /\ steady = TRUE
    /\ roundLog = <<>>
    /\ staleAtStart = FALSE
    /\ spc = "idle"
    /\ mode = Mode("Fast", NoPattern)
    /\ active = FALSE
    /\ resumeFrom = 0
    /\ marker = 0
    /\ cur = 1
    /\ exitStatus = 0
    /\ tmpCopy = FALSE
    /\ atTest = FALSE
    /\ log = <<>>
    /\ events = <<>>
    /\ lastCall = NoCall
    /\ resumeEnd = NoPrev
    /\ prev = NoPrev
    /\ sessions = 0
    /\ apc = "input"
    /\ loaded_filenames = <<>>
    /\ white_list = <<>>
    /\ violations = <<>>
    /\ tpc = "input"
    /\ tracer_present = TRUE
    /\ exit_strace = 0
    /\ stderr_strace = <<>>
    /\ loaded = <<>>
    /\ contributed = <<>>
    /\ sidecar = FALSE
    /\ cpc = "idle"
    /\ argv = NoArgs
    /\ search_mode = NoMode
    /\ rpc = "idle"
    /\ names = {}
    /\ tests_skipped = {}
    /\ tests_stderr = {}
    /\ todo = <<>>
    /\ ran = <<>>
    /\ all_passed = TRUE
    /\ gc_enabled = TRUE
    /\ sys_stderr = "stderr"
    /\ ipc = "idle"
    /\ sys_path = <<>>
    /\ sys_modules = {}
    /\ imp = NoImport
    /\ import_calls = 0
    /\ environ = NoEnvironment
    /\ frames = <<>>
    /\ lastExit = NoExit
    /\ py3 = TRUE
    /\ epc = "idle"
    /\ v_cache = EmptyMap
    /\ detected = EmptyMap
    /\ lastDetect = NoDetect
    /\ detect_calls = 0
    /\ started = 0

DisablePrinting ==
    /\ Len(printLog) < MaxPrintCalls
    /\ LET after == disablePrinting(orig_print, builtin_print)
       IN  /\ orig_print' = after.orig_print
           /\ builtin_print' = after.builtin_print
    /\ printLog' = Append(printLog, "disable")
    /\ lastPrint' = PrintCall("disable")
    /\ UNCHANGED <<leakVars, sessVars, auditVars, traceVars, modeVars,
                   refVars, importVars, envVars, cacheVars>>

ReenablePrinting ==
    /\ Len(printLog) < MaxPrintCalls
    /\ LET after == reenablePrinting(orig_print, builtin_print)
       IN  /\ orig_print' = after.orig_print
           /\ builtin_print' = after.builtin_print
    /\ printLog' = Append(printLog, "reenable")
    /\ lastPrint' = PrintCall("reenable")
    /\ UNCHANGED <<leakVars, sessVars, auditVars, traceVars, modeVars,
                   refVars, importVars, envVars, cacheVars>>

\* checkReferenceCount as far as print goes: disablePrinting() at line 911,
\* the rounds, reenablePrinting() at line 944, and the return.
CheckReturns ==
    /\ Len(printLog) < MaxPrintCalls
    /\ LET silenced == disablePrinting(orig_print, builtin_print)
           after    == reenablePrinting(silenced.orig_print,
                                        silenced.builtin_print)
       IN  /\ orig_print' = after.orig_print
           /\ builtin_print' = after.builtin_print
    /\ printLog' = Append(printLog, "check_returned")
    /\ lastPrint' = PrintCall("check_returned")
    /\ UNCHANGED <<leakVars, sessVars, auditVars, traceVars, modeVars,
                   refVars, importVars, envVars, cacheVars>>

\* checkReferenceCount left by an exception of the probe or by one of the
\* assertions of lines 920 and 935: line 944 is not reached.
CheckRaises ==
    /\ Len(printLog) < MaxPrintCalls
    /\ LET silenced == disablePrinting(orig_print, builtin_print)
       IN  /\ orig_print' = silenced.orig_print
           /\ builtin_print' = silenced.builtin_print
    /\ printLog' = Append(printLog, "check_raised")
    /\ lastPrint' = PrintCall("check_raised")
    /\ UNCHANGED <<leakVars, sessVars, auditVars, traceVars, modeVars,
                   refVars, importVars, envVars, cacheVars>>

NextPrint == DisablePrinting \/ ReenablePrinting \/ CheckReturns \/ CheckRaises

PrintSpec == InitPrint /\ [][NextPrint]_vars

\* A call in the log silenced print and none after it restored it.
RECURSIVE PendingDisable(_)
PendingDisable(calls_made) ==
    IF calls_made = <<>> THEN FALSE
    ELSE LET c == calls_made[Len(calls_made)]
         IN  IF c \in {"disable", "check_raised"} THEN TRUE
             ELSE IF c \in {"reenable", "check_returned"} THEN FALSE
             ELSE PendingDisable(SubSeq(calls_made, 1, Len(calls_made) - 1))

LastPrintCall == IF printLog = <<>> THEN "none" ELSE printLog[Len(printLog)]

\* C26: over every sequence of calls, the saved print is never the no-op;
\* after reenablePrinting print is the original and nothing is saved,
\* however many disablePrinting calls went before; a reenablePrinting with
\* no disable pending leaves print and the saved value as they were; and
\* print is the original after every return of checkReferenceCount.
C26_PrintingRestored ==
    /\ orig_print # "noop"
    /\ LastPrintCall = "reenable" =>
         /\ builtin_print = "print"
         /\ orig_print = "None"
         /\ ~PendingDisable(SubSeq(printLog, 1, Len(printLog) - 1)) =>
              /\ builtin_print = lastPrint.printBefore
              /\ orig_print = lastPrint.origBefore
    /\ LastPrintCall = "check_returned" => builtin_print = "print"

\* C26 witness: three disablePrinting calls, then one reenablePrinting that
\* found print silenced.
C26_Witness ==
    /\ printLog = <<"disable", "disable", "disable", "reenable">>
    /\ lastPrint.printBefore = "noop"
    /\ builtin_print = "print"

-----------------------------------------------------------------------------
(* importFromInlineCopy, nuitka/utils/Importing.py lines 119-144.  The     *)
(* module search path is a sequence of directory names.  The import itself *)
(* is taken not to write to sys.path; whether it finds the module is an    *)
(* input of each call.                                                     *)

\* Calls made one after another in one process.
MaxImportCalls == 2

InlineModules == {"tqdm", "colorama"}

PathEntries == {"site-packages", "cwd"}

\* os.path.join(dirname(__file__), "..", "build", "inline_copy", name)
InlineCopyPath(module_name) == "inline_copy/" \o module_name

\* "del sys.path[0]" of the finally clause.
RemoveFirstEntryMutKeep(path) == path
RemoveFirstEntry(path) == Tail(path)

ImportCall(module_name, must_exist, path) ==
    [module_name |-> module_name, must_exist |-> must_exist,
     entryPath |-> path, writes |-> 0, outcome |-> "pending"]

\* The state before the first call.
InitImport ==
    /\ ipc = "input"
    /\ sys_path \in SeqsUpTo(PathEntries, 2)
    /\ sys_modules \in SUBSET InlineModules
    /\ imp \in { ImportCall(n, e, sys_path) : n \in InlineModules, e \in BOOLEAN }
    /\ import_calls = 1
    /\ lpc = "idle"
    /\ max_rounds = DefaultMaxRounds
    /\ explain = FALSE
    /\ probe = [kind |-> "none"]
    /\ count = 0
    /\ heap = <<>>
    /\ m1 = EmptyMap
    /\ m2 = EmptyMap
    /\ ref_count1 = InitialRefCount
    /\ ref_count2 = InitialRefCount
    /\ result = FALSE
    /\ report = {}
    /\ calls = 0
    /\ eqLog = <<>>
    /\ steady = TRUE
    /\ roundLog = <<>>
    /\ staleAtStart = FALSE
    /\ spc = "idle"
    /\ mode = Mode("Fast", NoPattern)
    /\ active = FALSE
    /\ resumeFrom = 0
    /\ marker = 0
    /\ cur = 1
    /\ exitStatus = 0
    /\ tmpCopy = FALSE
    /\ atTest = FALSE
    /\ log = <<>>
    /\ events = <<>>
    /\ lastCall = NoCall
    /\ resumeEnd = NoPrev
    /\ prev = NoPrev
    /\ sessions = 0
    /\ apc = "input"
    /\ loaded_filenames = <<>>
    /\ white_list = <<>>
    /\ violations = <<>>
    /\ tpc = "input"
    /\ tracer_present = TRUE
    /\ exit_strace = 0
    /\ stderr_strace = <<>>
    /\ loaded = <<>>
    /\ contributed = <<>>
    /\ sidecar = FALSE
    /\ cpc = "idle"
    /\ argv = NoArgs
    /\ search_mode = NoMode
    /\ rpc = "idle"
    /\ names = {}
    /\ tests_skipped = {}
    /\ tests_stderr = {}
    /\ todo = <<>>
    /\ ran = <<>>
    /\ all_passed = TRUE
    /\ gc_enabled = TRUE
    /\ sys_stderr = "stderr"
    /\ builtin_print = "print"
    /\ orig_print = "None"
    /\ printLog = <<>>
    /\ lastPrint = NoPrintCall
    /\ environ = NoEnvironment
    /\ frames = <<>>
    /\ lastExit = NoExit
    /\ py3 = TRUE
    /\ epc = "idle"
    /\ v_cache = EmptyMap
    /\ detected = EmptyMap
    /\ lastDetect = NoDetect
    /\ detect_calls = 0
    /\ started = 0

\* Lines 123-124: the module is already loaded.
ReturnLoaded ==
    /\ ipc = "input"
    /\ imp.module_name \in sys_modules
    /\ ipc' = "returned"
    /\ imp' = [imp EXCEPT !.outcome = "loaded"]
    /\ UNCHANGED <<sys_path, sys_modules, import_calls>>
    /\ UNCHANGED <<leakVars, sessVars, auditVars, traceVars, modeVars,
                   refVars, printVars, envVars, cacheVars>>

\* Lines 127-136: the inline copy's directory is put in front and
\* __import__ is entered.
InsertInlinePath ==
    /\ ipc = "input"
    /\ imp.module_name \notin sys_modules
    /\ sys_path' = <<InlineCopyPath(imp.module_name)>> \o sys_path
    /\ imp' = [imp EXCEPT !.writes = @ + 1]
    /\ ipc' = "importing"
    /\ UNCHANGED <<sys_modules, import_calls>>
    /\ UNCHANGED <<leakVars, sessVars, auditVars, traceVars, modeVars,
                   refVars, printVars, envVars, cacheVars>>

\* Line 136 returns the module; the finally clause runs.
ImportSucceeds ==
    /\ ipc = "importing"
    /\ sys_modules' = sys_modules \cup {imp.module_name}
    /\ sys_path' = RemoveFirstEntry(sys_path)
    /\ imp' = [imp EXCEPT !.writes = @ + 1, !.outcome = "imported"]
    /\ ipc' = "returned"
    /\ UNCHANGED import_calls
    /\ UNCHANGED <<leakVars, sessVars, auditVars, traceVars, modeVars,
                   refVars, printVars, envVars, cacheVars>>

\* Lines 137-139: ImportError with must_exist false returns None; the
\* finally clause runs.
ImportFailsReturnsNone ==
    /\ ipc = "importing"
    /\ ~imp.must_exist
    /\ sys_path' = RemoveFirstEntry(sys_path)
    /\ imp' = [imp EXCEPT !.writes = @ + 1, !.outcome = "none"]
    /\ ipc' = "returned"
    /\ UNCHANGED <<sys_modules, import_calls>>
    /\ UNCHANGED <<leakVars, sessVars, auditVars, traceVars, modeVars,
                   refVars, printVars, envVars, cacheVars>>

\* Lines 137-141: ImportError with must_exist true ends in sys.exit; the
\* finally clause runs while SystemExit passes through.
ImportFailsExits ==
    /\ ipc = "importing"
    /\ imp.must_exist
    /\ sys_path' = RemoveFirstEntry(sys_path)
    /\ imp' = [imp EXCEPT !.writes = @ + 1, !.outcome = "fatal"]
    /\ ipc' = "exited"
    /\ UNCHANGED <<sys_modules, import_calls>>
    /\ UNCHANGED <<leakVars, sessVars, auditVars, traceVars, modeVars,
                   refVars, printVars, envVars, cacheVars>>

\* The next call in the same process.
CallImportAgain ==
    /\ ipc = "returned"
    /\ import_calls < MaxImportCalls
    /\ \E n \in InlineModules, e \in BOOLEAN :
         imp' = ImportCall(n, e, sys_path)
    /\ ipc' = "input"
    /\ import_calls' = import_calls + 1
    /\ UNCHANGED <<sys_path, sys_modules>>
    /\ UNCHANGED <<leakVars, sessVars, auditVars, traceVars, modeVars,
                   refVars, printVars, envVars, cacheVars>>

NextImport ==
    \/ ReturnLoaded
    \/ InsertInlinePath
    \/ ImportSucceeds
    \/ ImportFailsReturnsNone
    \/ ImportFailsExits
    \/ CallImportAgain

ImportSpec == InitImport /\ [][NextImport]_vars

\* C28: on every exit of importFromInlineCopy the module search path is
\* the one it found: a call for a loaded module never wrote to it, and a
\* call that attempted the import put one entry in and took it out again,
\* whether the import succeeded, returned None or ended the process.
C28_SearchPathRestored ==
    /\ imp.outcome = "loaded" => (imp.writes = 0 /\ sys_path = imp.entryPath)
    /\ imp.outcome \in {"imported", "none", "fatal"} =>
         (imp.writes = 2 /\ sys_path = imp.entryPath)
    /\ ipc \in {"returned", "exited"} => imp.outcome # "pending"

\* C28 witness: a second call, for a module that must exist and is not
\* found, has ended the process with a non-empty path as it was.
C28_Witness ==
    /\ ipc = "exited"
    /\ import_calls = 2
    /\ imp.outcome = "fatal"
    /\ Len(sys_path) = 2
    /\ sys_path = imp.entryPath

-----------------------------------------------------------------------------
(* The context managers that change the environment: withPythonPathChange  *)
(* (Common.py lines 1134-1166), withExtendedExtraOptions (1169-1196) and   *)
(* _setupSconsEnvironment (nuitka/build/SconsInterface.py lines 153-211),  *)
(* on a system that is not Windows.  The block of a manager does nothing   *)
(* to the environment but enter and leave further managers.                *)

\* Managers open at the same time.
MaxDepth == 2

SetVar(env, n, v) == [env EXCEPT ![n] = Present(v)]
DelVar(env, n) == [env EXCEPT ![n] = Absent]

\* The python_path arguments, as the list of their elements.
PythonPathArgs ==
    { <<>>, << <<"lib">> >>,
      << <<Sep, "opt", Sep, ".", ".", Sep, "srv">>, <<"lib", Sep>> >> }

\* The arguments of withExtendedExtraOptions.
OptionArgs == { << <<"--debug">> >>, << <<"--debug">>, <<"--lto">> >> }

\* nuitka.__path__[0]
PackageDir == <<Sep, "opt", Sep, "nuitka">>

\* The values the three variables may have before any manager is entered.
StartEnvironments ==
    { [n \in EnvNames |->
         CASE n = "PYTHONPATH" -> pp
           [] n = "PYTHONHOME" -> ph
           [] n = "NUITKA_EXTRA_OPTIONS" -> xo
           [] OTHER -> Absent] :
      pp \in {Absent, Present(<< <<>> >>), Present(<< <<Sep, "srv">> >>)},
      ph \in {Absent, Present(<< <<Sep, "opt", Sep, "interp">> >>)},
      xo \in {Absent, Present(<< <<>> >>), Present(<< <<"--lto">> >>)} }

\* An entered manager: the values it saved (Absent for None) and, as
\* history, the environment it found.
Frame(mgr, applies, old_path, old_home, old_value, entry) ==
    [mgr |-> mgr, active |-> applies, old_path |-> old_path,
     old_home |-> old_home, old_value |-> old_value, entry |-> entry]

\* "if old is None: del os.environ[name]  else: os.environ[name] = old"
RestoreOrDeleteMutNoDelete(env, n, old) ==
    IF old.set THEN SetVar(env, n, old.val) ELSE env
RestoreOrDelete(env, n, old) ==
    IF old.set THEN SetVar(env, n, old.val) ELSE DelVar(env, n)

\* "if old is not None: os.environ[name] = old"
RestoreIfSaved(env, n, old) ==
    IF old.set THEN SetVar(env, n, old.val) ELSE env

\* The process before the first manager is entered.
InitEnv ==
    /\ epc = "running"
    /\ environ \in StartEnvironments
    /\ frames = <<>>
    /\ lastExit = NoExit
    /\ py3 \in BOOLEAN
    /\ lpc = "idle"
    /\ max_rounds = DefaultMaxRounds
    /\ explain = FALSE
    /\ probe = [kind |-> "none"]
    /\ count = 0
    /\ heap = <<>>
    /\ m1 = EmptyMap
    /\ m2 = EmptyMap
    /\ ref_count1 = InitialRefCount
    /\ ref_count2 = InitialRefCount
    /\ result = FALSE
    /\ report = {}
    /\ calls = 0
    /\ eqLog = <<>>
    /\ steady = TRUE
    /\ roundLog = <<>>
    /\ staleAtStart = FALSE
    /\ spc = "idle"
    /\ mode = Mode("Fast", NoPattern)
    /\ active = FALSE
    /\ resumeFrom = 0
    /\ marker = 0
    /\ cur = 1
    /\ exitStatus = 0
    /\ tmpCopy = FALSE
    /\ atTest = FALSE
    /\ log = <<>>
    /\ events = <<>>
    /\ lastCall = NoCall
    /\ resumeEnd = NoPrev
    /\ prev = NoPrev
    /\ sessions = 0
    /\ apc = "input"
    /\ loaded_filenames = <<>>
    /\ white_list = <<>>
    /\ violations = <<>>
    /\ tpc = "input"
    /\ tracer_present = TRUE
    /\ exit_strace = 0
    /\ stderr_strace = <<>>
    /\ loaded = <<>>
    /\ contributed = <<>>
    /\ sidecar = FALSE
    /\ cpc = "idle"
    /\ argv = NoArgs
    /\ search_mode = NoMode
    /\ rpc = "idle"
    /\ names = {}
    /\ tests_skipped = {}
    /\ tests_stderr = {}
    /\ todo = <<>>
    /\ ran = <<>>
    /\ all_passed = TRUE
    /\ gc_enabled = TRUE
    /\ sys_stderr = "stderr"
    /\ builtin_print = "print"
    /\ orig_print = "None"
    /\ printLog = <<>>
    /\ lastPrint = NoPrintCall
    /\ ipc = "idle"
    /\ sys_path = <<>>
    /\ sys_modules = {}
    /\ imp = NoImport
    /\ import_calls = 0
    /\ v_cache = EmptyMap
    /\ detected = EmptyMap
    /\ lastDetect = NoDetect
    /\ detect_calls = 0
    /\ started = 0

\* withPythonPathChange up to its yield, lines 1136-1151.
EnterPythonPathChange ==
    /\ epc = "running"
    /\ Len(frames) < MaxDepth
    /\ \E python_path \in PythonPathArgs :
         LET joined == [i \in 1..Len(python_path) |->
                          normpath(abspath(python_path[i]))]
             old    == environ["PYTHONPATH"]
         IN  /\ environ' =
                  IF python_path = <<>> THEN environ
                  ELSE SetVar(environ, "PYTHONPATH",
                              IF old.set THEN old.val \o joined ELSE joined)
             /\ frames' = Append(frames,
                  Frame("withPythonPathChange", python_path # <<>>,
                        old, Absent, Absent, environ))
    /\ UNCHANGED <<lastExit, py3, epc>>
    /\ UNCHANGED <<leakVars, sessVars, auditVars, traceVars, modeVars,
                   refVars, printVars, importVars, cacheVars>>

\* withPythonPathChange after its yield, lines 1162-1166.
ExitPythonPathChange ==
    /\ epc = "running"
    /\ frames # <<>>
    /\ LET top    == frames[Len(frames)]
           raises == top.active /\ ~top.old_path.set
                       /\ ~environ["PYTHONPATH"].set
           after  == IF top.active /\ ~raises
                     THEN RestoreOrDelete(environ, "PYTHONPATH", top.old_path)
                     ELSE environ
       IN  /\ top.mgr = "withPythonPathChange"
           /\ environ' = after
           /\ lastExit' = [mgr |-> top.mgr, entry |-> top.entry,
                           after |-> after, raised |-> raises]
           /\ epc' = IF raises THEN "raised" ELSE "running"
    /\ frames' = SubSeq(frames, 1, Len(frames) - 1)
    /\ UNCHANGED py3
    /\ UNCHANGED <<leakVars, sessVars, auditVars, traceVars, modeVars,
                   refVars, printVars, importVars, cacheVars>>

\* withExtendedExtraOptions up to its yield: addExtendedExtraOptions,
\* lines 1169-1182.
EnterExtendedExtraOptions ==
    /\ epc = "running"
    /\ Len(frames) < MaxDepth
    /\ \E args \in OptionArgs :
         LET old_value == environ["NUITKA_EXTRA_OPTIONS"]
         IN  /\ environ' =
                  SetVar(environ, "NUITKA_EXTRA_OPTIONS",
                         IF old_value.set THEN old_value.val \o args ELSE args)
             /\ frames' = Append(frames,
                  Frame("withExtendedExtraOptions", TRUE, Absent, Absent,
                        old_value, environ))
    /\ UNCHANGED <<lastExit, py3, epc>>
    /\ UNCHANGED <<leakVars, sessVars, auditVars, traceVars, modeVars,
                   refVars, printVars, importVars, cacheVars>>

\* withExtendedExtraOptions after its yield, lines 1193-1196.
ExitExtendedExtraOptions ==
    /\ epc = "running"
    /\ frames # <<>>
    /\ LET top    == frames[Len(frames)]
           raises == ~top.old_value.set
                       /\ ~environ["NUITKA_EXTRA_OPTIONS"].set
           after  == IF raises THEN environ
                     ELSE RestoreOrDelete(environ, "NUITKA_EXTRA_OPTIONS",
                                          top.old_value)
       IN  /\ top.mgr = "withExtendedExtraOptions"
           /\ environ' = after
           /\ lastExit' = [mgr |-> top.mgr, entry |-> top.entry,
                           after |-> after, raised |-> raises]
           /\ epc' = IF raises THEN "raised" ELSE "running"
    /\ frames' = SubSeq(frames, 1, Len(frames) - 1)
    /\ UNCHANGED py3
    /\ UNCHANGED <<leakVars, sessVars, auditVars, traceVars, modeVars,
                   refVars, printVars, importVars, cacheVars>>

\* _setupSconsEnvironment up to its yield, lines 175-195.
EnterSconsEnvironment ==
    /\ epc = "running"
    /\ Len(frames) < MaxDepth
    /\ LET withExe == SetVar(environ, "NUITKA_PYTHON_EXE_PATH",
                             <<PythonExecutable>>)
           cleared == IF py3
                      THEN DelVar(DelVar(withExe, "PYTHONPATH"), "PYTHONHOME")
                      ELSE withExe
       IN  /\ environ' = SetVar(cleared, "NUITKA_PACKAGE_DIR", <<PackageDir>>)
           /\ frames' = Append(frames,
                Frame("_setupSconsEnvironment", py3,
                      IF py3 THEN environ["PYTHONPATH"] ELSE Absent,
                      IF py3 THEN environ["PYTHONHOME"] ELSE Absent,
                      Absent, environ))
    /\ UNCHANGED <<lastExit, py3, epc>>
    /\ UNCHANGED <<leakVars, sessVars, auditVars, traceVars, modeVars,
                   refVars, printVars, importVars, cacheVars>>

\* _setupSconsEnvironment after its yield, lines 199-211: the two values
\* are put back, then the two variables of the manager are deleted, which
\* raises KeyError for one that is not set.
ExitSconsEnvironment ==
    /\ epc = "running"
    /\ frames # <<>>
    /\ LET top      == frames[Len(frames)]
           restored == IF py3
                       THEN RestoreIfSaved(
                              RestoreIfSaved(environ, "PYTHONPATH",
                                             top.old_path),
                              "PYTHONHOME", top.old_home)
                       ELSE environ
           noExe    == ~restored["NUITKA_PYTHON_EXE_PATH"].set
           noDir    == ~restored["NUITKA_PACKAGE_DIR"].set
           after    == IF noExe THEN restored
                       ELSE IF noDir
                            THEN DelVar(restored, "NUITKA_PYTHON_EXE_PATH")
                       ELSE DelVar(DelVar(restored, "NUITKA_PYTHON_EXE_PATH"),
                                   "NUITKA_PACKAGE_DIR")
       IN  /\ top.mgr = "_setupSconsEnvironment"
           /\ environ' = after
           /\ lastExit' = [mgr |-> top.mgr, entry |-> top.entry,
                           after |-> after, raised |-> noExe \/ noDir]
           /\ epc' = IF noExe \/ noDir THEN "raised" ELSE "running"
    /\ frames' = SubSeq(frames, 1, Len(frames) - 1)
    /\ UNCHANGED py3
    /\ UNCHANGED <<leakVars, sessVars, auditVars, traceVars, modeVars,
                   refVars, printVars, importVars, cacheVars>>

NextEnv ==
    \/ EnterPythonPathChange
    \/ ExitPythonPathChange
    \/ EnterExtendedExtraOptions
    \/ ExitExtendedExtraOptions
    \/ EnterSconsEnvironment
    \/ ExitSconsEnvironment

EnvSpec == InitEnv /\ [][NextEnv]_vars

\* C29: when a manager has been left after its block, the variables it is
\* answerable for are as it found them, set to the same value or not set:
\* PYTHONPATH for withPythonPathChange, NUITKA_EXTRA_OPTIONS for
\* withExtendedExtraOptions, PYTHONPATH and PYTHONHOME for
\* _setupSconsEnvironment; also for a manager entered inside another.
C29_EnvironmentRestored ==
    /\ lastExit.mgr = "withPythonPathChange" =>
         lastExit.after["PYTHONPATH"] = lastExit.entry["PYTHONPATH"]
    /\ lastExit.mgr = "withExtendedExtraOptions" =>
         lastExit.after["NUITKA_EXTRA_OPTIONS"]
           = lastExit.entry["NUITKA_EXTRA_OPTIONS"]
    /\ lastExit.mgr = "_setupSconsEnvironment" =>
         /\ lastExit.after["PYTHONPATH"] = lastExit.entry["PYTHONPATH"]
         /\ lastExit.after["PYTHONHOME"] = lastExit.entry["PYTHONHOME"]

\* C29 witness: withPythonPathChange entered inside withPythonPathChange,
\* with PYTHONPATH not set before the outer one; the inner one has been
\* left and PYTHONPATH is what the outer one made it.
C29_Witness ==
    /\ Len(frames) = 1
    /\ frames[1].mgr = "withPythonPathChange"
    /\ ~frames[1].entry["PYTHONPATH"].set
    /\ lastExit.mgr = "withPythonPathChange"
    /\ lastExit.entry["PYTHONPATH"].set
    /\ lastExit.entry # frames[1].entry
    /\ environ["PYTHONPATH"] = lastExit.entry["PYTHONPATH"]

-----------------------------------------------------------------------------
(* myDetectVersion and its cache v_cache, nuitka/build/SconsHacks.py lines *)
(* 41-42 and 88-144.  A command is a sequence of characters and names,     *)
(* " " between its words and Sep inside its paths.  The exit status and    *)
(* the first output line of the compiler are inputs of each call; the      *)
(* option passed to the compiler (lines 103-108) is left out.              *)

\* Calls made in one build.
MaxDetectCalls == 3

Space == " "

\* The construction environments: the value of $CC.
CompilerEnvs == { <<"gcc">>, <<"clang", Space, "-m32">> }

\* The cc arguments.
CommandUniverse ==
    { <<>>, <<"$CC">>, <<"gcc">>,
      <<Sep, "usr", Sep, "bin", Sep, "g++">>,
      <<"g++", Space, "-m32">>,
      <<Sep, "usr", Sep, "bin", Sep, "g++", Space, "-I", Sep, "tmp", Sep, "x">> }

\* env.subst(cc): $CC is replaced by its value.
RECURSIVE subst(_, _)
subst(env, cc) ==
    IF cc = <<>> THEN <<>>
    ELSE (IF Head(cc) = "$CC" THEN env ELSE <<Head(cc)>>) \o subst(env, Tail(cc))

\* '"++" in text'
HasPlusPlus(text) == \E i \in 1..Len(text) : text[i] \in {"g++", "c++"}

\* tuple(SCons.Util.CLVar(cc)): the words of the command.
RECURSIVE WordsFrom(_, _)
WordsFrom(cc, word) ==
    IF cc = <<>> THEN (IF word = <<>> THEN <<>> ELSE <<word>>)
    ELSE IF Head(cc) = Space
         THEN (IF word = <<>> THEN <<>> ELSE <<word>>) \o WordsFrom(Tail(cc), <<>>)
    ELSE WordsFrom(Tail(cc), Append(word, Head(cc)))

CLVar(cc) == WordsFrom(cc, <<>>)

\* The first output lines of a compiler asked for its version.
VersionLines ==
    { <<"1", "2">>, <<"2", ".", "1">>,
      <<"g", Space, "2", ".", "1", ".", "0", Space, "g">>,
      <<"g">>, <<"1", ".">> }

\* str.strip
RECURSIVE Strip(_)
Strip(line) ==
    IF line # <<>> /\ Head(line) = Space THEN Strip(Tail(line))
    ELSE IF line # <<>> /\ line[Len(line)] = Space
         THEN Strip(SubSeq(line, 1, Len(line) - 1))
    ELSE line

\* The end of the run of digits that starts at i.
RECURSIVE DigitsEnd(_, _)
DigitsEnd(line, i) ==
    IF i < Len(line) /\ line[i + 1] \in Digits THEN DigitsEnd(line, i + 1)
    ELSE i

\* The end of the match of [0-9]+(?:\.[0-9]+)+ that starts at i, 0: none.
RECURSIVE DottedEnd(_, _, _)
DottedEnd(line, j, groups) ==
    IF j + 2 <= Len(line) /\ line[j + 1] = "." /\ line[j + 2] \in Digits
    THEN DottedEnd(line, DigitsEnd(line, j + 2), groups + 1)
    ELSE IF groups > 0 THEN j ELSE 0

MatchEnd(line, i) ==
    IF line[i] \in Digits THEN DottedEnd(line, DigitsEnd(line, i), 0) ELSE 0

\* re.findall(...)[0], or the whole line when nothing matches (131-135).
VersionText(line) ==
    LET starts == { i \in 1..Len(line) : MatchEnd(line, i) > 0 }
    IN  IF starts = {} THEN Strip(line)
        ELSE LET first == CHOOSE i \in starts : \A k \in starts : i <= k
             IN  SubSeq(line, first, MatchEnd(line, first))

\* version.split(".")
RECURSIVE SplitDots(_, _)
SplitDots(text, part) ==
    IF text = <<>> THEN <<part>>
    ELSE IF Head(text) = "." THEN <<part>> \o SplitDots(Tail(text), <<>>)
    ELSE SplitDots(Tail(text), Append(part, Head(text)))

\* Line 137: int() raises ValueError for a part that is not a number.
VersionParts(line) == SplitDots(VersionText(Strip(line)), <<>>)
VersionIsNumeric(line) ==
    \A i \in 1..Len(VersionParts(line)) : IsNumber(VersionParts(line)[i])
VersionOf(line) ==
    [i \in 1..Len(VersionParts(line)) |-> IntOf(VersionParts(line)[i])]

\* "if clvar in v_cache:"
InCacheMutNever(clvar, cache) == FALSE
InCache(clvar, cache) == clvar \in DOMAIN cache

\* One call: what it returns, whether it starts a process, and the cache
\* after it.  outcome "raised" is the ValueError of line 137.
DetectResult(cc, ret, line, cache) ==
    IF cc = <<>> THEN
        [outcome |-> "empty", returned |-> NoVersion, started |-> FALSE,
         cache |-> cache]
    ELSE IF HasPlusPlus(basename(cc)) THEN
        [outcome |-> "plusplus", returned |-> NoVersion, started |-> FALSE,
         cache |-> cache]
    ELSE IF InCache(CLVar(cc), cache) THEN
        [outcome |-> "cached", returned |-> Version(cache[CLVar(cc)]),
         started |-> FALSE, cache |-> cache]
    ELSE IF ret # 0 THEN
        [outcome |-> "failed", returned |-> NoVersion, started |-> TRUE,
         cache |-> cache]
    ELSE IF ~VersionIsNumeric(line) THEN
        [outcome |-> "raised", returned |-> NoVersion, started |-> TRUE,
         cache |-> cache]
    ELSE
        [outcome |-> "detected", returned |-> Version(VersionOf(line)),
         started |-> TRUE,
         cache |-> [k \in DOMAIN cache \cup {CLVar(cc)} |->
                      IF k = CLVar(cc) THEN VersionOf(line) ELSE cache[k]]]

\* The module has been imported: the cache is empty.
InitCache ==
    /\ v_cache = EmptyMap
    /\ detected = EmptyMap
    /\ lastDetect = NoDetect
    /\ detect_calls = 0
    /\ started = 0
    /\ lpc = "idle"
    /\ max_rounds = DefaultMaxRounds
    /\ explain = FALSE
    /\ probe = [kind |-> "none"]
    /\ count = 0
    /\ heap = <<>>
    /\ m1 = EmptyMap
    /\ m2 = EmptyMap
    /\ ref_count1 = InitialRefCount
    /\ ref_count2 = InitialRefCount
    /\ result = FALSE
    /\ report = {}
    /\ calls = 0
    /\ eqLog = <<>>
    /\ steady = TRUE
    /\ roundLog = <<>>
    /\ staleAtStart = FALSE
    /\ spc = "idle"
    /\ mode = Mode("Fast", NoPattern)
    /\ active = FALSE
    /\ resumeFrom = 0
    /\ marker = 0
    /\ cur = 1
    /\ exitStatus = 0
    /\ tmpCopy = FALSE
    /\ atTest = FALSE
    /\ log = <<>>
    /\ events = <<>>
    /\ lastCall = NoCall
    /\ resumeEnd = NoPrev
    /\ prev = NoPrev
    /\ sessions = 0
    /\ apc = "input"
    /\ loaded_filenames = <<>>
    /\ white_list = <<>>
    /\ violations = <<>>
    /\ tpc = "input"
    /\ tracer_present = TRUE
    /\ exit_strace = 0
    /\ stderr_strace = <<>>
    /\ loaded = <<>>
    /\ contributed = <<>>
    /\ sidecar = FALSE
    /\ cpc = "idle"
    /\ argv = NoArgs
    /\ search_mode = NoMode
    /\ rpc = "idle"
    /\ names = {}
    /\ tests_skipped = {}
    /\ tests_stderr = {}
    /\ todo = <<>>
    /\ ran = <<>>
    /\ all_passed = TRUE
    /\ gc_enabled = TRUE
    /\ sys_stderr = "stderr"
    /\ builtin_print = "print"
    /\ orig_print = "None"
    /\ printLog = <<>>
    /\ lastPrint = NoPrintCall
    /\ ipc = "idle"
    /\ sys_path = <<>>
    /\ sys_modules = {}
    /\ imp = NoImport
    /\ import_calls = 0
    /\ environ = NoEnvironment
    /\ frames = <<>>
    /\ lastExit = NoExit
    /\ py3 = TRUE
    /\ epc = "idle"

myDetectVersion ==
    /\ detect_calls < MaxDetectCalls
    /\ \E env \in CompilerEnvs, command \in CommandUniverse,
          ret \in {0, 1}, line \in VersionLines :
         LET cc == subst(env, command)
             r  == DetectResult(cc, ret, line, v_cache)
         IN  /\ v_cache' = r.cache
             /\ lastDetect' = [cc |-> cc, outcome |-> r.outcome,
                               returned |-> r.returned, started |-> r.started,
                               known |-> cc \in DOMAIN detected,
                               cacheBefore |-> v_cache]
             /\ detected' =
                  IF r.outcome = "detected" /\ cc \notin DOMAIN detected
                  THEN [k \in DOMAIN detected \cup {cc} |->
                          IF k = cc THEN r.returned.ver ELSE detected[k]]
                  ELSE detected
             /\ started' = started + (IF r.started THEN 1 ELSE 0)
    /\ detect_calls' = detect_calls + 1
    /\ UNCHANGED <<leakVars, sessVars, auditVars, traceVars, modeVars,
                   refVars, printVars, importVars, envVars>>

NextCache == myDetectVersion

CacheSpec == InitCache /\ [][NextCache]_vars

\* C30: a call for a command for which a version was detected before
\* returns that version and starts no process; a call whose compiler exits
\* with a status other than 0 leaves the cache as it was; and a call for a
\* command whose basename contains "++" returns None, starts no process
\* and leaves the cache as it was.
C30_VersionCacheConsistent ==
    /\ lastDetect.known =>
         /\ lastDetect.returned = Version(detected[lastDetect.cc])
         /\ ~lastDetect.started
    /\ lastDetect.outcome = "failed" => v_cache = lastDetect.cacheBefore
    /\ (lastDetect.outcome # "none" /\ HasPlusPlus(basename(lastDetect.cc))) =>
         /\ lastDetect.returned = NoVersion
         /\ ~lastDetect.started
         /\ v_cache = lastDetect.cacheBefore

\* C30 witness: the third call is for a command detected before, after a
\* call in between that failed; it returned the version from the cache
\* and one process less than calls was started.
C30_Witness ==
    /\ detect_calls = 3
    /\ lastDetect.known
    /\ lastDetect.outcome = "cached"
    /\ lastDetect.returned.some
    /\ started = 2
    /\ Cardinality(DOMAIN v_cache) = 1

====
